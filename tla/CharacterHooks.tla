--------------------------- MODULE CharacterHooks ---------------------------
(***************************************************************************)
(* Damage to the players: the registry the vital tick keeps                  *)
(* (hook_vital_process_tick.cpp), the pacifist flag (hook_onepunchman.cpp),  *)
(* the staged override (hook_apply_damage.cpp) and the commands of           *)
(* api/lifx_character.cpp that apply damage.  Hit points are counted in      *)
(* units of 1 / Scale.                                                       *)
(***************************************************************************)
EXTENDS Integers

CONSTANTS
  Characters, \* the ids of the characters of players
  BodyAddrs,  \* addresses of charStats objects
  Scale,      \* kHpScale
  FullHp,     \* the nominal maximum, in display units
  HpArgs,     \* the values administrators pass
  Nobody

ASSUME CharacterAssumption ==
  /\ {Scale, FullHp} \subseteq Nat \ {0} /\ HpArgs \subseteq Nat
  /\ Nobody \notin Characters \cup BodyAddrs

VARIABLES
  body,     \* what the engine keeps at each address: "free", "beast" or "player"
  charIdAt, \* +0x109C of each object: the character, or Nobody for zero
  registry, \* g_registry
  pacifist, \* g_pacifist
  staged,   \* g_pendingOverride with its value; Nobody when it is off
  hardHp,   \* the damage term of each object, -(HP - 1) * Scale
  ticked,   \* history: objects the vital tick has seen since they were made
  last      \* history: the blow of the last step

characterVars == <<body, charIdAt, registry, pacifist, staged, hardHp, ticked, last>>

NoBlow  == [by |-> Nobody, at |-> Nobody, kind |-> "none", dealt |-> 0]
Healthy == -(FullHp - 1) * Scale

CharacterInit ==
  /\ body     = [a \in BodyAddrs |-> "free"]
  /\ charIdAt = [a \in BodyAddrs |-> Nobody]
  /\ registry = [c \in Characters |-> Nobody]
  /\ pacifist = {}
  /\ staged   = Nobody
  /\ hardHp   = [a \in BodyAddrs |-> Healthy]
  /\ ticked   = {}
  /\ last     = NoBlow

\* External: the engine makes the object of a player, or of an animal.
Embody(a, what, c) ==
  /\ body[a] = "free"
  /\ what = "player" => \A b \in BodyAddrs : charIdAt[b] # c
  /\ body'     = [body EXCEPT ![a] = what]
  /\ charIdAt' = [charIdAt EXCEPT ![a] = IF what = "player" THEN c ELSE Nobody]
  /\ hardHp'   = [hardHp EXCEPT ![a] = Healthy]
  /\ last'     = NoBlow
  /\ UNCHANGED <<registry, pacifist, staged, ticked>>

\* External: it frees one; nothing tells the registry.
Disembody(a) ==
  /\ body[a] # "free"
  /\ body'     = [body EXCEPT ![a] = "free"]
  /\ charIdAt' = [charIdAt EXCEPT ![a] = Nobody]
  /\ ticked'   = ticked \ {a}
  /\ last'     = NoBlow
  /\ UNCHANGED <<registry, pacifist, staged, hardHp>>
-----------------------------------------------------------------------------
SlipFirstStays(a) ==
  IF charIdAt[a] = Nobody \/ registry[charIdAt[a]] # Nobody THEN registry
  ELSE [registry EXCEPT ![charIdAt[a]] = a]

\* Internal_RegisterCharStats
Registered(a) ==
  IF charIdAt[a] = Nobody THEN registry ELSE [registry EXCEPT ![charIdAt[a]] = a]

\* ProcessTick: registers the object under its character.  The sector edge and
\* the bandits' swings, which it drives as well, are modules of their own.
ProcessTick(a) ==
  /\ body[a] = "player"
  /\ registry' = Registered(a)
  /\ ticked'   = ticked \cup {a}
  /\ last'     = NoBlow
  /\ UNCHANGED <<body, charIdAt, pacifist, staged, hardHp>>

LookupCharStats(c) == registry[c]

\* Lifx::setPacifist
SetPacifist(c, on) ==
  /\ pacifist' = IF on THEN pacifist \cup {c} ELSE pacifist \ {c}
  /\ last'     = NoBlow
  /\ UNCHANGED <<body, charIdAt, registry, staged, hardHp, ticked>>

\* ResolvePlayerCharId: the id an object holds, if the registry holds the object.
ResolvePlayerCharId(a) ==
  IF charIdAt[a] # Nobody /\ LookupCharStats(charIdAt[a]) = a THEN charIdAt[a] ELSE Nobody

\* OnePunchMan: the damage the engine computed, or none.
OnePunchMan(attacker, defender, damage) ==
  IF /\ ResolvePlayerCharId(defender) # Nobody
     /\ ResolvePlayerCharId(attacker) \in pacifist
  THEN 0 ELSE damage

\* HitApplyDamage: whoever calls it takes the staged override.
HitApplyDamage(by, a, kind, damage) ==
  LET dealt == IF staged = Nobody THEN damage ELSE staged IN
  /\ hardHp' = [hardHp EXCEPT ![a] = @ + dealt]
  /\ staged' = Nobody
  /\ last'   = [by |-> by, at |-> a, dealt |-> dealt,
                kind |-> IF staged = Nobody THEN kind ELSE "overridden"]
  /\ UNCHANGED <<body, charIdAt, registry, pacifist, ticked>>

\* Bound: what is dead is hit no more.
Alive(a) == body[a] # "free" /\ hardHp[a] < Scale

\* Player::_applyHit of the engine, through both hooks.
MeleeHit(attacker, defender, damage) ==
  /\ body[attacker] # "free" /\ Alive(defender) /\ attacker # defender
  /\ HitApplyDamage(attacker, defender, "melee", OnePunchMan(attacker, defender, damage))

\* Lifx::stageHitOverride
StageHitOverride(hp) ==
  /\ staged' = hp * Scale
  /\ last'   = NoBlow
  /\ UNCHANGED <<body, charIdAt, registry, pacifist, hardHp, ticked>>

\* A command applies a packet of its own to the object of a registered
\* character.  Bound: one that is gone is left alone; the code writes there.
Command(c, kind, damage) ==
  /\ LookupCharStats(c) # Nobody
  /\ Alive(LookupCharStats(c))
  /\ HitApplyDamage(Nobody, LookupCharStats(c), kind, damage)

\* Lifx::setHardHp: the HUD counts from one.
SetHardHp(c, target) ==
  /\ LookupCharStats(c) # Nobody
  /\ Command(c, "set", -(target - 1) * Scale - hardHp[LookupCharStats(c)])

\* Lifx::kill and Lifx::knockout; the latter takes no hard hit points.  Each then
\* calls the engine's virtual for the state.
Kill(c)     == Command(c, "kill", FullHp * Scale)
Knockout(c) == Command(c, "knockout", 0)

CharacterNext ==
  \/ \E a \in BodyAddrs, c \in Characters : Embody(a, "player", c)
  \/ \E a \in BodyAddrs : Embody(a, "beast", Nobody) \/ Disembody(a) \/ ProcessTick(a)
  \/ \E c \in Characters, on \in BOOLEAN : SetPacifist(c, on)
  \/ \E a, d \in BodyAddrs, damage \in 1..Scale : MeleeHit(a, d, damage)
  \/ \E hp \in HpArgs : StageHitOverride(hp) \/ \E c \in Characters : SetHardHp(c, hp)
  \/ \E c \in Characters : Kill(c) \/ Knockout(c)

CharacterSpec == CharacterInit /\ [][CharacterNext]_characterVars
-----------------------------------------------------------------------------
CharacterTypeOK ==
  /\ body \in [BodyAddrs -> {"free", "beast", "player"}]
  /\ charIdAt \in [BodyAddrs -> Characters \cup {Nobody}]
  /\ registry \in [Characters -> BodyAddrs \cup {Nobody}]
  /\ pacifist \subseteq Characters /\ ticked \subseteq BodyAddrs
  /\ \A a \in BodyAddrs : hardHp[a] \in Int
  /\ staged # Nobody => staged \in Nat

\* "The hit lands for 0" when a flagged player strikes a player, however often
\* either has left and come back, to another object or to one that was another's,
\* once the vital tick has seen both; "PvE hits ... fall through untouched".
PacifistsHarmNoPlayer ==
  last.kind = "melee" =>
    LET vsPlayer == body[last.at] = "player" IN
    /\ vsPlayer /\ charIdAt[last.by] \in pacifist /\ {last.by, last.at} \subseteq ticked
         => last.dealt = 0
    /\ ~vsPlayer \/ charIdAt[last.by] \notin pacifist => last.dealt > 0
=============================================================================
