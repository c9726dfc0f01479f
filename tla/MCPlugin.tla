------------------------------ MODULE MCPlugin ------------------------------
(* The parts of the server plugin that decide without the game: the life of *)
(* its hooks, the document its configuration is read into, and the worlds'  *)
(* edges.  They share no state, so a behaviour moves one of them.           *)
EXTENDS MCSectorEdge, ServerHooks, XmlPrinter, XmlText

VARIABLE part

HConf(dump, autoPost, drops) == [file |-> TRUE, dump |-> dump, autoPost |-> autoPost, drops |-> drops]
MCDrops == {"tree", "ComputeDropChance", "AddTunnelMaterials"}
MCHookConfs == {NoConf} \cup {HConf(dump, autoPost, MCDrops) : dump, autoPost \in BOOLEAN}

HBuild(unhookable, unfit, sites) ==
  [unhookable |-> unhookable, unfit |-> unfit, sites |-> sites, slots |-> Slots]
MCBuild  == HBuild({}, {}, Sites)
MCBuilds == {MCBuild, HBuild({}, {"tree"}, {"MonumentPersonal"}),
             HBuild({"AddTunnelMaterials"}, {}, Sites), HBuild({"Con_Init"}, {}, Sites)}

MCModes(entities, collapse) == [entities |-> entities, collapse |-> collapse]
MCDocumentModes == {MCModes(e, c) : e, c \in BOOLEAN}
Attr(bytes, number) == [kind |-> "value", bytes |-> bytes, number |-> number]
Kid(kind, bytes)    == [kind |-> kind, bytes |-> bytes, number |-> NoNumber]
As(type, v)         == [type |-> type, value |-> v]
LowerA == 97
MCEmpty == [attr |-> NoAttr, kids |-> <<>>]
MCTexts ==
  {<<>>, <<LowerA, CR, LF, LowerA>>, <<LF, CR, CR>>, <<Space, LowerA, LF, Space, LowerA, Space>>,
   <<Amp, 108, 116, Semicolon, CR, LF, LowerA>>,                      \* &lt;
   <<Amp, 97, 109, 112, Semicolon, 103, 116, Semicolon>>,             \* &amp;gt;
   <<Amp, Hash, 49, 51, Semicolon, LowerA>>,                          \* &#13;
   <<Amp, Hash, LowerX, 52, 101, 50, 100, Semicolon>>,                \* &#x4e2d;
   <<Amp, Hash, LowerX, 103, Semicolon>>,                             \* &#xg;
   <<LowerA, Amp, LowerA, Semicolon>>,                                \* a&a;
   <<Amp, 113, 117, 111, 116, Semicolon, Apos>>}                      \* &quot;'
MCFiles ==
  {[attr |-> Attr(b, NoNumber), kids |-> <<Kid("text", b)>>] : b \in MCTexts}
  \cup {[attr |-> NoAttr, kids |-> <<Kid("comment", b), Kid(k, <<LowerA, CR>>)>>] :
          b \in {<<>>, <<LowerA, Amp, LF, CR>>}, k \in {"text", "cdata"}}
  \cup {[attr |-> Attr(<<48, LowerX, 102, 102>>, As("int", -1)), kids |-> <<Kid("cdata", <<Lt, Amp>>)>>],
        [attr |-> Attr(<<Space, 49, 50, LowerA>>, As("unsigned", 12)), kids |-> <<>>], MCEmpty}
MCSettings ==
  {As("string", b) : b \in {<<>>, <<Lt, Amp, LowerA>>, <<CR, Quot, Gt>>, <<LF>>}}
  \cup {As("int", -128), As("int", 127), As("unsigned", 255), As("int64", -32768), As("uint64", 65535),
        As("bool", 0), As("bool", 1)}
-----------------------------------------------------------------------------

\* Bound: one player walks everywhere, the other along the southern row.
Rover == CHOOSE p \in Players : TRUE
Walks(positions) == \A p \in Players \ {Rover} : positions[p][2] = 0

PluginInit ==
  /\ part \in {"edge", "hooks", "edits", "reader", "texts"}
  /\ Init
  /\ part # "edge" => world = (CHOOSE w \in Worlds : TRUE) /\ pos = [p \in Players |-> <<0, 0>>]
  /\ Walks(pos)
  /\ HooksInit
  /\ part # "hooks" => conf = NoConf /\ build = MCBuild
  /\ DomInit /\ ReaderInit
  /\ part # "reader" => source = "file"
  /\ TextInit
  /\ part # "texts" => mode = MCModes(TRUE, FALSE) /\ el = ParseElement(MCEmpty)

edgeVars == vars
Others(p) ==
  /\ IF p = "edge" THEN TRUE ELSE UNCHANGED edgeVars
  /\ IF p = "hooks" THEN TRUE ELSE UNCHANGED hookVars
  /\ IF p = "edits" THEN TRUE ELSE UNCHANGED dom
  /\ IF p = "reader" THEN TRUE ELSE UNCHANGED readerVars
  /\ IF p = "texts" THEN TRUE ELSE UNCHANGED textVars
  /\ UNCHANGED part

PluginNext ==
  \/ part = "edge" /\ Next /\ Walks(pos') /\ Others("edge")
  \/ part = "hooks" /\ HooksNext /\ Others("hooks")
  \/ part = "edits" /\ DomNext /\ Others("edits")
  \/ part = "reader" /\ ReaderNext /\ Others("reader")
  \/ part = "texts" /\ TextNext /\ Others("texts")

pluginVars == <<part, edgeVars, hookVars, dom, readerVars, textVars>>
PluginSpec ==
  /\ PluginInit /\ [][PluginNext]_pluginVars
  /\ \A t \in EngineThreads : WF_pluginVars(part = "hooks" /\ HookStep(t) /\ Others("hooks"))
=============================================================================
