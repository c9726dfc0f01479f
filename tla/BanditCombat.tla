---------------------------- MODULE BanditCombat ----------------------------
(***************************************************************************)
(* The charged attack of the bandits (hooks/character/hook_setanimation.cpp) *)
(* The behaviour tree asks for animations, the hook decides which of them    *)
(* are played and when a swing is committed; the frame tick drives a swing   *)
(* through prefire, fire and recoil, lands its hit inside the fire phase and *)
(* refills the stamina.  Time is counted in units; clocks are kept as ages   *)
(* and as time left, so that a behaviour is not bounded by a clock.          *)
(***************************************************************************)
EXTENDS Integers, FiniteSets

CONSTANTS
  Bandits,
  Prefire, Fire, Recoil,  \* kPrefireMs, kFireMs, kRecoilMs
  Contact,                \* kFireContactMs: the hit falls this far into FIRE
  StaminaMax, Regen,      \* kStaminaMax, kRegenPerSec
  BaseCost, MinCost, MaxCost, RefDamage,
  Damages,                \* the damage levels of the weapons, and NoWeapon
  NoWeapon,
  FrameGap,               \* bound: frames are at most this far apart
  PlayCap, DueCap,        \* the sizes of plays[] and due[]
  NoState

Requests == {"Attack_Fast", "Attack_Power", "Walk"}
SwingPhases == {"NONE", "PREFIRE", "FIRE", "RECOIL"}

\* An entry of g_stam.
StamEntry ==
  [stamina : Int, winded : BOOLEAN, phase : SwingPhases, type : Requests \ {"Walk"},
   age : Nat, swingAge : Nat, lock : Nat]

ASSUME CombatAssumption ==
  /\ {Prefire, Fire, Recoil, Contact, StaminaMax, Regen, BaseCost, MinCost,
      MaxCost, RefDamage, FrameGap, PlayCap, DueCap} \subseteq Nat \ {0}
  /\ Damages \ {NoWeapon} \subseteq Nat
  /\ MinCost <= MaxCost /\ 8 * MaxCost <= 5 * StaminaMax
  /\ IsFiniteSet(Bandits)
  /\ NoState \notin Nat \cup StamEntry

VARIABLES
  alive,    \* the bandits that have not died
  weapon,   \* the damage level of the weapon of each bandit
  stam,     \* g_stam
  pending,  \* g_pendingHit: the time left to each queued hit
  shown,    \* the sequence SetByIndex last set on each bandit
  struck,   \* the bandits endAttack ran for in the last frame
  landed    \* history: hits drained since the last committed swing

combatVars == <<alive, weapon, stam, pending, shown, struck, landed>>

AttackTotal == Prefire + Fire + Recoil

Least(a, b) == IF a < b THEN a ELSE b

SlipUncappedCost(b) ==
  IF weapon[b] \in {NoWeapon, 0} THEN BaseCost ELSE (BaseCost * weapon[b]) \div RefDamage

\* SwingCostFor: the cost grows with the weapon, within a band.
SwingCost(b) ==
  LET cost == IF weapon[b] \in {NoWeapon, 0} THEN BaseCost
              ELSE (BaseCost * weapon[b]) \div RefDamage
  IN IF cost < MinCost THEN MinCost ELSE Least(cost, MaxCost)

\* The recovery factor is 1.6.
CaughtBreath(b, stamina) == 5 * stamina >= 8 * SwingCost(b)

\* The entry a first attack creates; lastSwingMs is 0, long ago.
FreshStam == [stamina |-> StaminaMax, winded |-> FALSE, phase |-> "NONE",
              type |-> "Attack_Fast", age |-> 0, swingAge |-> AttackTotal, lock |-> 0]

CombatInit ==
  /\ alive   = Bandits
  /\ weapon  \in [Bandits -> Damages]
  /\ stam    = [b \in Bandits |-> NoState]
  /\ pending = [b \in Bandits |-> NoState]
  /\ shown   = [b \in Bandits |-> <<"Walk", "NONE">>]
  /\ struck  = {}
  /\ landed  = [b \in Bandits |-> 1]

-----------------------------------------------------------------------------
Locked(b) == stam[b] # NoState /\ stam[b].lock > 0
Winded(b) == stam[b] # NoState /\ stam[b].winded

CanCommit(b, s) ==
  /\ s.phase = "NONE"
  /\ s.swingAge >= AttackTotal
  /\ s.stamina >= SwingCost(b)

SlipShortLock(b, s, req) ==
  LET left == s.stamina - SwingCost(b) IN
  [stamina |-> left, winded |-> left < SwingCost(b), phase |-> "PREFIRE",
   type |-> req, age |-> 0, swingAge |-> 0, lock |-> Prefire]

Committed(b, s, req) ==
  LET left == s.stamina - SwingCost(b) IN
  [stamina |-> left, winded |-> left < SwingCost(b), phase |-> "PREFIRE",
   type |-> req, age |-> 0, swingAge |-> 0, lock |-> AttackTotal]

\* OnSetAnimation while a swing plays: every request is dropped.
DropWhileLocked(b, req) ==
  /\ Locked(b)
  /\ struck' = {}
  /\ UNCHANGED <<alive, weapon, stam, pending, shown, landed>>

\* OnSetAnimation of a winded bandit: it rests whatever the tree asks for.
RestWhileWinded(b, req) ==
  /\ ~Locked(b)
  /\ Winded(b)
  /\ shown'  = [shown EXCEPT ![b] = <<"Rest", "NONE">>]
  /\ struck' = {}
  /\ UNCHANGED <<alive, weapon, stam, pending, landed>>

\* OnSetAnimation with an attack: commits a swing or drops the request.
RequestAttack(b, req) ==
  /\ ~Locked(b) /\ ~Winded(b)
  /\ req # "Walk"
  /\ LET s == IF stam[b] = NoState THEN FreshStam ELSE stam[b] IN
     IF CanCommit(b, s)
     THEN /\ stam'   = [stam EXCEPT ![b] = Committed(b, s, req)]
          /\ shown'  = [shown EXCEPT ![b] = <<req, "PREFIRE">>]
          /\ landed' = [landed EXCEPT ![b] = 0]
     ELSE /\ stam' = [stam EXCEPT ![b] = s]
          /\ UNCHANGED <<shown, landed>>
  /\ struck' = {}
  /\ UNCHANGED <<alive, weapon, pending>>

RequestOther(b, req) ==
  /\ ~Locked(b) /\ ~Winded(b)
  /\ req = "Walk"
  /\ shown'  = [shown EXCEPT ![b] = <<req, "NONE">>]
  /\ struck' = {}
  /\ UNCHANGED <<alive, weapon, stam, pending, landed>>

OnSetAnimation(b, req) ==
  /\ b \in alive
  /\ \/ DropWhileLocked(b, req) \/ RestWhileWinded(b, req)
     \/ RequestAttack(b, req) \/ RequestOther(b, req)

-----------------------------------------------------------------------------
\* The next phase of a swing whose current phase has lasted `age`.
PhaseAfter(s, age) ==
  CASE s.phase = "PREFIRE" /\ age >= Prefire -> "FIRE"
    [] s.phase = "FIRE" /\ age >= Fire       -> "RECOIL"
    [] s.phase = "RECOIL" /\ age >= Recoil   -> "NONE"
    [] OTHER                                 -> s.phase

\* The stamina d later.
SlipUncapped(s, d) == s.stamina + Regen * d
Rested(s, d) == Least(StaminaMax, s.stamina + Regen * d)

\* One bandit's share of OnHitTick, d after the last frame.
Advanced(b, s, d) ==
  LET stamina == Rested(s, d)
      phase   == PhaseAfter(s, s.age + d)
  IN [stamina  |-> stamina,
      winded   |-> s.winded /\ ~CaughtBreath(b, stamina),
      phase    |-> phase,
      type     |-> s.type,
      age      |-> IF phase # s.phase \/ phase = "NONE" THEN 0 ELSE s.age + d,
      swingAge |-> Least(AttackTotal, s.swingAge + d),
      lock     |-> IF s.lock > d THEN s.lock - d ELSE 0]

Enters(b, new, phase) ==
  stam[b] # NoState /\ stam[b].phase # phase /\ new[b].phase = phase

\* At most n elements of S, as many as there are.
UpTo(n, S) == {T \in SUBSET S : Cardinality(T) = Least(n, Cardinality(S))}

\* The queue after the hits that are due.
SlipHitStays(queue, due) == queue
Drained(queue, due) == [b \in Bandits |-> IF b \in due THEN NoState ELSE queue[b]]

\* plays[] and due[] are filled in the order of the hash tables.
OnHitTick(d) ==
  LET new    == [b \in Bandits |-> IF stam[b] = NoState THEN NoState
                                   ELSE Advanced(b, stam[b], d)]
      turned == {b \in Bandits : Enters(b, new, "FIRE") \/ Enters(b, new, "RECOIL")}
      queue  == [b \in Bandits |->
                   IF Enters(b, new, "FIRE") THEN Contact
                   ELSE IF pending[b] = NoState THEN NoState
                   ELSE IF pending[b] > d THEN pending[b] - d ELSE 0]
  IN /\ stam' = new
     /\ \E plays \in UpTo(PlayCap, turned) :
          shown' = [b \in Bandits |-> IF b \in plays THEN <<new[b].type, new[b].phase>>
                                      ELSE shown[b]]
     /\ \E due \in UpTo(DueCap, {b \in Bandits : queue[b] = 0}) :
          /\ pending' = Drained(queue, due)
          /\ struck'  = {b \in due : weapon[b] # NoWeapon}
          /\ landed'  = [b \in Bandits |-> IF b \in due THEN landed[b] + 1 ELSE landed[b]]
     /\ UNCHANGED <<alive, weapon>>

\* Forget, which the hook of createCorpse calls for a dying bandit.
Forget(b) ==
  /\ b \in alive
  /\ alive'   = alive \ {b}
  /\ pending' = [pending EXCEPT ![b] = NoState]
  /\ stam'    = [stam EXCEPT ![b] = NoState]
  /\ struck'  = {}
  /\ UNCHANGED <<weapon, shown, landed>>

CombatFrame == \E d \in 1..FrameGap : OnHitTick(d)

CombatNext ==
  \/ \E b \in Bandits, req \in Requests : OnSetAnimation(b, req)
  \/ CombatFrame
  \/ \E b \in Bandits : Forget(b)

\* The server calls the tick every frame.
CombatSpec == CombatInit /\ [][CombatNext]_combatVars /\ WF_combatVars(CombatFrame)

-----------------------------------------------------------------------------
CombatTypeOK ==
  /\ alive \subseteq Bandits
  /\ weapon \in [Bandits -> Damages]
  /\ \A b \in Bandits : stam[b] # NoState =>
       stam[b] \in [stamina : 0..StaminaMax, winded : BOOLEAN, phase : SwingPhases,
                    type : Requests \ {"Walk"}, age : 0..(Prefire + Fire + Recoil),
                    swingAge : 0..AttackTotal, lock : 0..AttackTotal]
  /\ \A b \in Bandits : pending[b] # NoState => pending[b] \in 0..Contact
  /\ struck \subseteq Bandits

\* A hit lands only while the bandit shows the strike it belongs to: "the
\* queued hit fires during this same window, so damage always coincides with
\* a visible swing".
HitIsSeen == \A b \in struck : shown[b] = <<stam[b].type, "FIRE">>

\* A committed swing hits once: no second hit, and no new swing before the
\* hit of the last one.
OneHitPerSwing ==
  [][\A b \in Bandits :
       /\ landed'[b] <= 1
       /\ shown'[b][2] = "PREFIRE" /\ shown[b][2] # "PREFIRE" => landed[b] = 1]_combatVars

\* A bandit that is out of breath recovers, whatever the tree asks of it.
WindedRecovers == \A b \in Bandits : Winded(b) ~> ~Winded(b)
=============================================================================
