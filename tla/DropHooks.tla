----------------------------- MODULE DropHooks -----------------------------
(***************************************************************************)
(* The drop and recipe hooks (hooks/engine/hook_gem_drop.cpp,                *)
(* hook_tunnel_drop.cpp, hook_tree_drop.cpp, hook_recipe_starting_tools.cpp) *)
(* and their place in the life of the server (cm_server.cpp): a section of   *)
(* the XML file each, read once; code of the engine diverted if it is what   *)
(* the hook expects; handlers that the engine calls ever after.              *)
(***************************************************************************)
EXTENDS Integers, Sequences, FiniteSets

CONSTANTS
  GemXml, TunnelXml, TreeXml, ToolXml, \* the sections a file may have
  Yields,     \* what a dig may yield: sequences of [quality, quantity]
  Recipes,    \* the engine's list: [tool, skill, needs]
  Unset, Malformed, Vanilla

Seqs == INSTANCE SequencesExt

DropKinds == {"gem", "tunnel", "tree", "tools"}

\* An attribute of a section is a number, Unset or Malformed.
Attribute == Nat \cup {Unset, Malformed}
Section(Items) == [enabled : BOOLEAN, head : Attribute, items : Seq(Items)]

Awards == [awarded : SUBSET [id : Nat, quality : Nat, quantity : Nat]]

ASSUME DropAssumption ==
  /\ Unset \notin Nat /\ Malformed \notin Nat /\ Unset # Malformed
  /\ Vanilla \notin Nat \cup Awards \cup Seqs!ToSet(Recipes)
  /\ GemXml \subseteq Section([id : Attribute, weight : Attribute])
  /\ TunnelXml \subseteq Section([id : Attribute, chance : Attribute, lo : Attribute, hi : Attribute])
  /\ TreeXml \subseteq Section([type : Attribute, id : Attribute])
  /\ ToolXml \subseteq Section(Attribute)
  /\ Yields \subseteq Seq([quality : Nat, quantity : Nat])
  /\ Recipes \in Seq([tool : Nat, skill : Nat, needs : Seq([material : Nat, skip : BOOLEAN])])

VARIABLES
  xml,       \* the configuration file
  lifecycle, \* of the server
  conf,      \* gGemDrops, gTunnelDrops, gTreeDrops, gTanningTubs
  diverted,  \* the hooks the engine's code really runs
  refused,   \* the hooks it would not take, asked for or not
  got        \* the last call of the engine: what for, and with what result

dropVars == <<xml, lifecycle, conf, diverted, refused, got>>

Off == [enabled |-> FALSE, head |-> Unset, items |-> <<>>]
NoCall == [ask |-> [kind |-> "none"], out |-> Vanilla]

DropsInit ==
  /\ xml \in [gem : GemXml, tunnel : TunnelXml, tree : TreeXml, tools : ToolXml]
  /\ lifecycle = "boot"
  /\ conf = [k \in DropKinds |-> Off]
  /\ diverted = {} /\ refused = {}
  /\ got = NoCall
-----------------------------------------------------------------------------
\* A section that is missing or disabled, or in which something is wrong, leaves
\* the default.  ok says whether the head and the items are right.
Kept(section, ok) == IF section.enabled /\ ok THEN section ELSE Off

Distinct(items, Key(_)) == \A i, j \in 1..Len(items) : Key(items[i]) = Key(items[j]) => i = j
Positive(n) == n \notin {Unset, Malformed} /\ n > 0

Sum(numbers) == Seqs!FoldLeft(LAMBDA sum, n : sum + n, 0, numbers)

\* Each item is stored with the weight up to it, in 64 bits, which weights of 32 do
\* not fill.
Cumulated(section) ==
  [section EXCEPT !.items =
     [i \in DOMAIN @ |-> [id |-> @[i].id, upTo |-> Sum([j \in 1..i |-> @[j].weight])]]]

SlipNoReset(section) ==
  LET wrong(x) == ~(Positive(x.id) /\ Positive(x.weight)) IN
  IF \E i \in DOMAIN section.items : wrong(section.items[i])
  THEN [section EXCEPT !.items = <<>>]
  ELSE Cumulated(Kept(section, section.head # Malformed))

ConfigureGemDrops(section) ==
  LET ok == /\ section.head = Unset \/ (section.head # Malformed /\ section.head \in 0..100)
            /\ \A i \in DOMAIN section.items : /\ Positive(section.items[i].id)
                                               /\ Positive(section.items[i].weight)
            /\ section.head # Unset \/ section.items # <<>>
  IN Cumulated(Kept(section, ok))

\* The head is the quality, an item [id, chance, lo, hi].
ConfigureTunnelDrops(section) ==
  LET rightItem(x) == /\ Positive(x.id)
                      /\ x.chance # Malformed /\ x.chance \in 0..100
                      /\ x.lo \notin {0, Malformed} /\ x.hi # Malformed
                      /\ x.hi = Unset \/ x.hi >= (IF x.lo = Unset THEN 1 ELSE x.lo)
      range(x) == [x EXCEPT !.lo = IF @ = Unset THEN 1 ELSE @,
                            !.hi = IF @ # Unset THEN @ ELSE IF x.lo = Unset THEN 1 ELSE x.lo]
      ok == /\ section.head = Unset \/ (section.head # Malformed /\ section.head \in 1..100)
            /\ \A i \in DOMAIN section.items : rightItem(section.items[i])
            /\ Distinct(section.items, LAMBDA x : x.id)
            /\ section.items # <<>>
      kept == Kept(section, ok)
  IN [kept EXCEPT !.items = [i \in DOMAIN @ |-> range(@[i])]]

\* The items in the order of their types, which differ.
ByType(items) ==
  [i \in DOMAIN items |->
     items[CHOOSE k \in DOMAIN items :
             Cardinality({j \in DOMAIN items : items[j].type < items[k].type}) = i - 1]]

\* An item is [type, id]; a tree type fits a byte.
ConfigureTreeDrops(section) ==
  LET ok == /\ section.items # <<>>
            /\ \A i \in DOMAIN section.items : /\ section.items[i].type \in 0..255
                                               /\ Positive(section.items[i].id)
            /\ Distinct(section.items, LAMBDA x : x.type)
      kept == Kept(section, ok)
  IN [kept EXCEPT !.items = ByType(@)]

ConfigureRecipeStartingTools(section) ==
  Kept(section, /\ section.items # <<>>
                /\ \A i \in DOMAIN section.items : Positive(section.items[i])
                /\ Distinct(section.items, LAMBDA x : x))

\* The end of Server::Init: every section on its own, the results ignored.
Configure ==
  /\ lifecycle = "boot"
  /\ lifecycle' = "ready"
  /\ conf' = [gem    |-> ConfigureGemDrops(xml.gem),
              tunnel |-> ConfigureTunnelDrops(xml.tunnel),
              tree   |-> ConfigureTreeDrops(xml.tree),
              tools  |-> ConfigureRecipeStartingTools(xml.tools)]
  /\ UNCHANGED <<xml, diverted, refused, got>>

\* The diversions a configuration asks for; the gem section has two.
Wanted ==
  {k \in DropKinds \ {"gem"} : conf[k].enabled}
    \cup (IF conf["gem"].head # Unset THEN {"gemChance"} ELSE {})
    \cup (IF conf["gem"].items # <<>> THEN {"gemItem"} ELSE {})

Diversions == (DropKinds \ {"gem"}) \cup {"gemChance", "gemItem"}

\* Server::Start: every hook whose code is not the expected one is left out.  A
\* transaction that fails takes the detours with it, but not the tree patch.
AttachHooks(fitting, committed) ==
  /\ lifecycle = "ready"
  /\ lifecycle' = "running"
  /\ refused' = Diversions \ (fitting \cap (IF committed THEN Diversions ELSE {"tree"}))
  /\ diverted' = Wanted \ refused'
  /\ UNCHANGED <<xml, conf, got>>
-----------------------------------------------------------------------------
Answers(ask, out) ==
  /\ lifecycle = "running"
  /\ got' = [ask |-> ask, out |-> out]
  /\ UNCHANGED <<xml, lifecycle, conf, diverted, refused>>

\* OnComputeDropChance; gem says whether the call is the one for gems.
OnComputeDropChance(gem) ==
  Answers([kind |-> "gemChance", gem |-> gem],
          IF "gemChance" \in diverted /\ gem THEN conf["gem"].head ELSE Vanilla)

TotalWeight == Seqs!Last(conf["gem"].items).upTo

SlipStrictly(ticket) ==
  LET items == conf["gem"].items
      found == Seqs!SelectInSeq(items, LAMBDA x : x.upTo > ticket)
  IN IF found = 0 THEN Seqs!Last(items).id ELSE items[found].id

\* SelectGemItemId: the first item whose weight reaches the ticket.
SelectGemItemId(ticket) ==
  LET items == conf["gem"].items
      found == Seqs!SelectInSeq(items, LAMBDA x : x.upTo >= ticket)
  IN IF found = 0 THEN Seqs!Last(items).id ELSE items[found].id

\* OnItemTypeLookup; the engine asks for the item of a gem or for any other.
OnItemTypeLookup(site, original) ==
  IF "gemItem" \in diverted /\ site /\ original
  THEN \E ticket \in 1..TotalWeight :
         Answers([kind |-> "gemItem", gem |-> TRUE], SelectGemItemId(ticket))
  ELSE Answers([kind |-> "gemItem", gem |-> site /\ original], Vanilla)

\* ExtractMaterialQuality: the mean of the materials, rounded, within 1..100.
Quantity(materials) == Sum([i \in DOMAIN materials |-> materials[i].quantity])
Worth(materials) ==
  Sum([i \in DOMAIN materials |-> materials[i].quality * materials[i].quantity])
ExtractMaterialQuality(materials) ==
  LET total == Quantity(materials)
      mean  == (Worth(materials) + total \div 2) \div total
  IN IF total = 0 THEN 100 ELSE IF mean < 1 THEN 1 ELSE IF mean > 100 THEN 100 ELSE mean

PassesChanceRoll(chance) ==
  IF chance = 0 THEN {FALSE} ELSE IF chance = 100 THEN {TRUE} ELSE BOOLEAN

\* AwardTunnelDrop: a roll for every item, a quantity for each that passes.
AwardTunnelDrop(ask, materials) ==
  LET items   == conf["tunnel"].items
      quality == IF conf["tunnel"].head # Unset THEN conf["tunnel"].head
                 ELSE ExtractMaterialQuality(materials) IN
  \E won \in SUBSET (DOMAIN items) :
    /\ \A i \in DOMAIN items : (i \in won) \in PassesChanceRoll(items[i].chance)
    /\ \E n \in [won -> UNION {items[i].lo..items[i].hi : i \in won}] :
         /\ \A i \in won : n[i] \in items[i].lo..items[i].hi
         /\ Answers(ask, [awarded |-> {[id |-> items[i].id, quality |-> quality, quantity |-> n[i]] : i \in won}])

\* OnAddTunnelMaterialsToInventory: site says whether a tunnel is dug.
OnAddTunnelMaterials(site, added, materials) ==
  LET ask == [kind |-> "tunnel", dug |-> site /\ added, materials |-> materials] IN
  IF "tunnel" \in diverted /\ added /\ site THEN AwardTunnelDrop(ask, materials)
  ELSE Answers(ask, Vanilla)

\* The trampoline: the engine's choice first, then a comparison per item.
TreeDrop(items, type) ==
  Seqs!FoldLeft(LAMBDA out, d : IF d.type = type THEN d.id ELSE out, Vanilla, items)

FellTree(type) ==
  Answers([kind |-> "tree", type |-> type],
          IF "tree" \in diverted THEN TreeDrop(conf["tree"].items, type) ELSE Vanilla)

FindMatchingRecipeNode(skill, tool, material) ==
  Seqs!SelectInSeq(Recipes, LAMBDA r :
    /\ r.tool = tool /\ r.skill = skill
    /\ \E i \in DOMAIN r.needs : ~r.needs[i].skip /\ r.needs[i].material = material)

\* OnFindRecipeForMaterial: the call of an ability on an object of type tool;
\* MakeSharedRecipeFromNode returns the recipe of the node found.
OnFindRecipeForMaterial(site, skill, tool, material) ==
  LET node == FindMatchingRecipeNode(skill, tool, material) IN
  Answers([kind |-> "tools", site |-> site, skill |-> skill, tool |-> tool, material |-> material],
          IF "tools" \in diverted /\ site /\ tool \in Seqs!ToSet(conf["tools"].items) /\ node # 0
          THEN Recipes[node] ELSE Vanilla)

DropsNext ==
  \/ Configure
  \/ \E fitting \in {Diversions} \cup {Diversions \ {d} : d \in Diversions}, committed \in BOOLEAN :
       AttachHooks(fitting, committed)
  \/ \E gem \in BOOLEAN : OnComputeDropChance(gem)
  \/ \E site, original \in BOOLEAN : OnItemTypeLookup(site, original)
  \/ \E site, added \in BOOLEAN, materials \in Yields : OnAddTunnelMaterials(site, added, materials)
  \/ \E type \in 0..2 : FellTree(type)
  \/ \E site \in BOOLEAN, skill \in {1, 2}, tool \in {1, 2}, material \in {1, 2} :
       OnFindRecipeForMaterial(site, skill, tool, material)

DropsSpec == DropsInit /\ [][DropsNext]_dropVars
-----------------------------------------------------------------------------
DropsTypeOK ==
  /\ lifecycle \in {"boot", "ready", "running"}
  /\ diverted \subseteq Diversions
  /\ \A k \in DropKinds : conf[k] # Off => conf[k].enabled /\ xml[k].enabled

\* What the file promises of a call, read off the XML: the shares of the gem
\* tickets are the weights, a tunnel awards each item independently at the mean
\* quality of the dig, a tree and a tub answer with their own entry.
Means(q, materials) ==
  LET total == Quantity(materials)
      error == q * total - Worth(materials)
  IN total > 0 => \/ 2 * error \in (-total)..total
                  \/ q = 1 /\ error > 0
                  \/ q = 100 /\ error < 0

AwardAsConfigured(a, materials) ==
  /\ \E i \in DOMAIN xml.tunnel.items :
       LET x == xml.tunnel.items[i] IN
       /\ a.id = x.id
       /\ x.lo # Unset => a.quantity >= x.lo
       /\ x.hi # Unset => a.quantity <= x.hi
       /\ x.chance # 0
  /\ IF xml.tunnel.head # Unset THEN a.quality = xml.tunnel.head
     ELSE a.quality \in 1..100 /\ Means(a.quality, materials)

\* A ticket is as good as another: an item is selected by as many of them as the
\* entries with its id weigh together.
FairTickets ==
  "gemItem" \in diverted =>
    \A i \in DOMAIN xml.gem.items :
      LET id == xml.gem.items[i].id IN
      Cardinality({t \in 1..TotalWeight : SelectGemItemId(t) = id})
        = Sum([j \in DOMAIN xml.gem.items |->
                 IF xml.gem.items[j].id = id THEN xml.gem.items[j].weight ELSE 0])

\* When a section is right, each in its own way.
Counts == Nat \ {0}
NoTwice(items, Key(_)) == \A i, j \in DOMAIN items : i < j => Key(items[i]) # Key(items[j])

RightGem(s) ==
  /\ s.enabled /\ s.head \in (0..100) \cup {Unset}
  /\ \A i \in DOMAIN s.items : s.items[i].id \in Counts /\ s.items[i].weight \in Counts
  /\ s.head = Unset => s.items # <<>>

RightTunnel(s) ==
  /\ s.enabled /\ s.items # <<>> /\ s.head \in (1..100) \cup {Unset}
  /\ \A i \in DOMAIN s.items :
       LET x == s.items[i] IN
       /\ x.id \in Counts /\ x.chance \in 0..100
       /\ x.lo \in Counts \cup {Unset} /\ x.hi \in Counts \cup {Unset}
       /\ x.lo # Unset /\ x.hi # Unset => x.lo <= x.hi
  /\ NoTwice(s.items, LAMBDA x : x.id)

RightTree(s) ==
  /\ s.enabled /\ s.items # <<>>
  /\ \A i \in DOMAIN s.items : s.items[i].type \in 0..255 /\ s.items[i].id \in Counts
  /\ NoTwice(s.items, LAMBDA x : x.type)

RightTools(s) ==
  /\ s.enabled /\ s.items # <<>>
  /\ \A i \in DOMAIN s.items : s.items[i] \in Counts
  /\ NoTwice(s.items, LAMBDA x : x)

\* A recipe for the tool and the skill, with a need for the material that counts.
Suits(r, ask) ==
  /\ r.tool = ask.tool /\ r.skill = ask.skill
  /\ [material |-> ask.material, skip |-> FALSE] \in Seqs!ToSet(r.needs)

\* The calls the file has an answer for, by a hook that the engine took.
Promised(ask) ==
  \/ /\ ask.kind = "gemChance" /\ ask.gem /\ RightGem(xml.gem) /\ xml.gem.head # Unset
  \/ /\ ask.kind = "gemItem" /\ ask.gem /\ RightGem(xml.gem) /\ xml.gem.items # <<>>
  \/ /\ ask.kind = "tunnel" /\ ask.dug /\ RightTunnel(xml.tunnel)
  \/ /\ ask.kind = "tree" /\ RightTree(xml.tree)
     /\ \E i \in DOMAIN xml.tree.items : xml.tree.items[i].type = ask.type
  \/ /\ ask.kind = "tools" /\ ask.site /\ RightTools(xml.tools)
     /\ ask.tool \in Seqs!ToSet(xml.tools.items)
     /\ \E r \in Seqs!ToSet(Recipes) : Suits(r, ask)

\* What the answer to such a call is.
AnswerAsConfigured(ask, out) ==
  CASE ask.kind = "gemChance" -> out = xml.gem.head
    [] ask.kind = "gemItem"   -> \E i \in DOMAIN xml.gem.items : out = xml.gem.items[i].id
    [] ask.kind = "tunnel"    -> /\ \A a \in out.awarded : AwardAsConfigured(a, ask.materials)
                                 /\ \A i \in DOMAIN xml.tunnel.items :
                                      xml.tunnel.items[i].chance = 100 =>
                                        \E a \in out.awarded : a.id = xml.tunnel.items[i].id
    [] ask.kind = "tree"      -> \E i \in DOMAIN xml.tree.items :
                                   xml.tree.items[i] = [type |-> ask.type, id |-> out]
    [] ask.kind = "tools"     -> \E r \in Seqs!ToSet(Recipes) : out = r /\ Suits(r, ask)

AsConfigured(ask, out) ==
  IF Promised(ask) /\ ask.kind \notin refused
  THEN out # Vanilla /\ AnswerAsConfigured(ask, out)
  ELSE out = Vanilla

\* A section that is missing, disabled or malformed "leaves vanilla behaviour"
\* (cm_server.cpp), and so does a hook whose code is not the expected one: those
\* calls get the engine's own answer.  Any other call that the file has an answer
\* for gets that, and the gem tickets are worth the same.
DropsAsConfigured == FairTickets /\ AsConfigured(got.ask, got.out)
=============================================================================
