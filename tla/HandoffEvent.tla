---------------------------- MODULE HandoffEvent ----------------------------
(***************************************************************************)
(* The handoff of a character as an event of the engine and as a payload of  *)
(* the dispatcher (hooks/netevent/sector_handoff_event.cpp), and the order   *)
(* in which a server gets ready for one (cm_server.cpp).  Three places of    *)
(* the code know its layout; all of it is in words of 32 bits.               *)
(***************************************************************************)
EXTENDS Integers, FiniteSets

CONSTANTS
  Worlds,
  Setups,    \* configurations: register, log, inject, target ("" for none)
  Errands,   \* handoffs: char, sector, x, y
  Sample,    \* the one TriggerSampleForward and PostTo send
  MaxWire,   \* bound: payloads under way
  Filler     \* any word the properties do not look at

ASSUME HandoffAssumption ==
  /\ Sample \in Errands /\ MaxWire \in Nat
  /\ \A h \in Errands : h = [char |-> h.char, sector |-> h.sector, x |-> h.x, y |-> h.y]
  /\ Setups \subseteq [register : BOOLEAN, log : BOOLEAN, inject : BOOLEAN, target : Worlds \cup {""}]

VARIABLES
  setup,      \* config_ of each server
  stage,      \* how far AttachHooks is
  registered, \* g_registered
  hears,      \* whether a delivery callback is set
  wire,       \* payloads the dispatcher carries
  arrived     \* history: the last delivery, with what was asked of its sender

handoffVars == <<setup, stage, registered, hears, wire, arrived>>

Nothing    == [char |-> Filler, sector |-> Filler, x |-> Filler, y |-> Filler]
NoDelivery == [to |-> Filler, kind |-> "none", asked |-> Nothing, shown |-> Nothing, done |-> Nothing]

HandoffInit ==
  /\ setup      \in [Worlds -> Setups]
  /\ stage      = [w \in Worlds |-> "boot"]
  /\ registered = [w \in Worlds |-> FALSE]
  /\ hears      = [w \in Worlds |-> FALSE]
  /\ wire       = {}
  /\ arrived    = NoDelivery
-----------------------------------------------------------------------------
\* The end of AttachHooks, in its order: the rep, the callback, the session.
RegisterRep(w) ==
  /\ stage[w] = "boot"
  /\ stage'      = [stage EXCEPT ![w] = "registered"]
  /\ registered' = [registered EXCEPT ![w] = @ \/ setup[w].register]
  /\ UNCHANGED <<setup, hears, wire>> /\ arrived' = NoDelivery

SetDeliveryCallback(w) ==
  /\ stage[w] = "registered"
  /\ stage' = [stage EXCEPT ![w] = "listening"]
  /\ hears' = [hears EXCEPT ![w] = setup[w].log \/ setup[w].inject]
  /\ UNCHANGED <<setup, registered, wire>> /\ arrived' = NoDelivery

SpawnConnect(w) ==
  /\ stage[w] = "listening"
  /\ stage' = [stage EXCEPT ![w] = "connected"]
  /\ UNCHANGED <<setup, registered, hears, wire>> /\ arrived' = NoDelivery
-----------------------------------------------------------------------------
TextWord == 77 \* no version
V1Words == 24  \* kWireSizeV1
V2Words == 26  \* kWireSizeV2, kPayloadWords

\* The SectorHandoffEvent after its base of 0x48 bytes: what the fields read.
EventFields(evt) ==
  [char |-> evt[(\h78 - \h48) \div 4], sector |-> evt[(\hA0 - \h48) \div 4],
   x |-> evt[(\hA8 - \h48) \div 4], y |-> evt[(\hAC - \h48) \div 4]]

\* ourCreate: a zeroed event.
Created == [i \in 0..V2Words - 1 |-> 0]

\* The event PostTo fills in through the struct.
SampleEvent ==
  [[i \in DOMAIN Created |-> Filler] EXCEPT
     ![0] = 2, ![12] = Sample.char, ![22] = Sample.sector, ![24] = Sample.x, ![25] = Sample.y]

\* ourPack: the words of the event, as the engine writes them.
OurPack(evt) == [i \in 0..V2Words - 1 |-> evt[i]]

SlipShifted(h) ==
  [i \in 0..V2Words - 1 |->
     CASE i = 0          -> 2
       [] 4 * i = \h30 -> h.char
       [] 4 * i = \h5C -> h.sector
       [] 4 * i = \h60 -> h.x
       [] 4 * i = \h64 -> h.y
       [] OTHER        -> Filler]

\* The same payload without an event, at the offsets it writes to.
BuildV2Payload(h) ==
  [i \in 0..V2Words - 1 |->
     CASE i = 0          -> 2
       [] 4 * i = \h30 -> h.char
       [] 4 * i = \h58 -> h.sector
       [] 4 * i = \h60 -> h.x
       [] 4 * i = \h64 -> h.y
       [] OTHER        -> Filler]

\* Dispatcher::SendTo, which the modules of the dispatcher take apart: the payload
\* is carried to its world or dropped.
SendTo(to, kind, asked, body) ==
  /\ Cardinality(wire) < MaxWire
  /\ wire' \in {wire, wire \cup {[to |-> to, kind |-> kind, asked |-> asked, body |-> body]}}
  /\ UNCHANGED <<setup, stage, registered, hears>> /\ arrived' = NoDelivery

\* ForwardToSector, once its sector has been resolved to a world.
ForwardToSector(w, to, h) ==
  stage[w] = "connected" /\ SendTo(to, "plugin", h, BuildV2Payload(h))

\* The auto-post of a connection, to the peer that is configured.
TriggerSampleForward(w) ==
  /\ setup[w].target # "" /\ stage[w] = "connected"
  /\ SendTo(setup[w].target, "plugin", Sample, BuildV2Payload(Sample))

\* PostTo: the engine takes the event, and then its words are mirrored.
PostTo(w, accepted) ==
  /\ registered[w] /\ accepted
  /\ setup[w].target # "" /\ stage[w] = "connected"
  /\ SendTo(setup[w].target, "plugin", Sample, OurPack(SampleEvent))

\* LifxDispatcher::sendTo: a script sends text of any length.  And a world of
\* the first version sends what it knows.
SendText(w, to, words) ==
  /\ stage[w] = "connected"
  /\ SendTo(to, "text", Nothing, [i \in 0..words - 1 |-> TextWord])
SendV1(to, h) ==
  SendTo(to, "v1", h, [i \in 0..V1Words - 1 |-> IF i = 0 THEN 1 ELSE IF i = 12 THEN h.char ELSE Filler])
-----------------------------------------------------------------------------
\* DecodeAndLog: what it shows of a payload.  The first 0x58 bytes are in both
\* versions; only the second has the rest.
DecodeAndLog(words, body) ==
  IF \/ words \notin {V1Words, V2Words}
     \/ body[0] # 2 /\ ~(body[0] = 1 /\ words = V1Words) THEN Nothing
  ELSE IF words = V1Words THEN [Nothing EXCEPT !.char = body[\h30 \div 4]]
  ELSE [char |-> body[\h30 \div 4], sector |-> body[\h58 \div 4],
        x |-> body[\h60 \div 4], y |-> body[\h64 \div 4]]

\* InjectFromWire: an event made of the payload, and ourProcess called on it.  It
\* asks for the size and not for the version.
InjectFromWire(w, words, body) ==
  IF words # V2Words \/ ~registered[w] THEN Nothing
  ELSE EventFields([i \in DOMAIN Created |-> body[i]])

\* The delivery callback; a delivery without one is dropped.
Deliver(m) ==
  LET w == m.to
      words == Cardinality(DOMAIN m.body) IN
  /\ m \in wire /\ stage[w] = "connected"
  /\ wire' = wire \ {m}
  /\ arrived' = [to |-> w, kind |-> m.kind, asked |-> m.asked,
                 shown |-> IF hears[w] /\ setup[w].log THEN DecodeAndLog(words, m.body) ELSE Nothing,
                 done  |-> IF hears[w] /\ setup[w].inject THEN InjectFromWire(w, words, m.body) ELSE Nothing]
  /\ UNCHANGED <<setup, stage, registered, hears>>

HandoffNext ==
  \/ \E w \in Worlds : RegisterRep(w) \/ SetDeliveryCallback(w) \/ SpawnConnect(w)
  \/ \E w, to \in Worlds, h \in Errands : ForwardToSector(w, to, h)
  \/ \E w \in Worlds : TriggerSampleForward(w) \/ PostTo(w, TRUE)
  \/ \E w, to \in Worlds, words \in {V1Words, V2Words} : SendText(w, to, words)
  \/ \E to \in Worlds, h \in Errands : SendV1(to, h)
  \/ \E m \in wire : Deliver(m)

HandoffSpec == HandoffInit /\ [][HandoffNext]_handoffVars
-----------------------------------------------------------------------------
HandoffTypeOK ==
  /\ setup \in [Worlds -> Setups]
  /\ stage \in [Worlds -> {"boot", "registered", "listening", "connected"}]
  /\ registered \in [Worlds -> BOOLEAN] /\ hears \in [Worlds -> BOOLEAN]
  /\ \A m \in wire : m.to \in Worlds /\ DOMAIN m.body \in {0..V1Words - 1, 0..V2Words - 1}

\* "Any inbound frame on the first connect is handled": a handoff that is
\* delivered is shown and processed by every receiver the server was configured
\* with, with the character, sector and place its sender was asked for, whichever
\* of the three ways it was sent; one of the first version is shown without what
\* it lacks and not processed; a text is not shown.
HandoffsArriveWhole ==
  arrived # NoDelivery =>
    LET s == setup[arrived.to] IN
    /\ s.log => arrived.shown = CASE arrived.kind = "plugin" -> arrived.asked
                                  [] arrived.kind = "v1"     -> [Nothing EXCEPT !.char = arrived.asked.char]
                                  [] arrived.kind = "text"   -> Nothing
    /\ s.inject /\ s.register =>
         /\ arrived.kind = "plugin" => arrived.done = arrived.asked
         /\ arrived.kind = "v1" => arrived.done = Nothing
=============================================================================
