---------------------------- MODULE PluginProofs -----------------------------
(***************************************************************************)
(* What the plugin's hooks promise.  On players: a flagged player's blow   *)
(* lands for nothing on another player, server and clients agree on every  *)
(* effect, and battle zones hold the right players.  On sectors: a position *)
(* is in the sector the declaration of the grids says, and a player who     *)
(* steps off the grid is handed over once.  And that the distances of the   *)
(* outpost commands are independent of each other, and no thread waits for  *)
(* the log while it holds it: for any worlds, builds of the engine and      *)
(* configurations, and any number of players and threads.                  *)
(***************************************************************************)
EXTENDS CharacterHooks, Effects, Battlezones, SectorEdge, ServerHooks, SequenceTheorems, Numbers, TLAPS

(* Characters: addresses are used again and again.                         *)

\* The kinds of the variables the flag is decided from.
BodyKinds ==
  /\ body \in [BodyAddrs -> {"free", "beast", "player"}]
  /\ charIdAt \in [BodyAddrs -> Characters \cup {Nobody}]
  /\ registry \in [Characters -> BodyAddrs \cup {Nobody}]
  /\ pacifist \subseteq Characters

\* An object has a character if it is a player's.
PlayersHaveIds == \A a \in BodyAddrs : body[a] = "player" <=> charIdAt[a] # Nobody

\* No two objects have the same one.
OneBodyEach ==
  \A a, b \in BodyAddrs : charIdAt[a] # Nobody /\ charIdAt[a] = charIdAt[b] => a = b

\* The registry holds every object the tick has seen since it was made, though
\* it may hold objects besides that are gone.
TickedAreRegistered ==
  \A a \in ticked : /\ a \in BodyAddrs /\ body[a] = "player"
                    /\ registry[charIdAt[a]] = a

CharacterInv == BodyKinds /\ PlayersHaveIds /\ OneBodyEach /\ TickedAreRegistered /\ PacifistsHarmNoPlayer

\* Whom the hook takes an object for: nobody, or the player it is; and that very
\* player once the tick has seen it (ResolvePlayerCharId).
LEMMA Resolved ==
  ASSUME CharacterInv, NEW a \in BodyAddrs
  PROVE  /\ ResolvePlayerCharId(a) # Nobody => body[a] = "player" /\ ResolvePlayerCharId(a) = charIdAt[a]
         /\ a \in ticked => ResolvePlayerCharId(a) = charIdAt[a] /\ charIdAt[a] # Nobody
BY DEF CharacterInv, BodyKinds, PlayersHaveIds, TickedAreRegistered, ResolvePlayerCharId, LookupCharStats

\* A blow between two objects deals what the flag allows.
LEMMA BlowIsRight ==
  ASSUME CharacterInv, NEW a \in BodyAddrs, NEW d \in BodyAddrs, NEW damage \in 1..Scale,
         MeleeHit(a, d, damage)
  PROVE  PacifistsHarmNoPlayer'
<1> DEFINE dealt == OnePunchMan(a, d, damage)
<1>1. /\ UNCHANGED <<body, charIdAt, pacifist, ticked>>
      /\ staged # Nobody => last'.kind = "overridden"
      /\ staged = Nobody => last' = [by |-> a, at |-> d, dealt |-> dealt, kind |-> "melee"]
  BY DEF MeleeHit, HitApplyDamage
<1>2. /\ body[d] = "player" /\ charIdAt[a] \in pacifist /\ {a, d} \subseteq ticked => dealt = 0
      /\ body[d] # "player" \/ charIdAt[a] \notin pacifist => dealt > 0
  <2>1. damage > 0
    BY CharacterAssumption
  <2>2. ResolvePlayerCharId(a) \in pacifist => ResolvePlayerCharId(a) # Nobody
    BY CharacterAssumption DEF CharacterInv, BodyKinds
  <2>3. ASSUME body[d] = "player", charIdAt[a] \in pacifist, a \in ticked, d \in ticked
        PROVE  dealt = 0
    BY <2>3, Resolved DEF OnePunchMan
  <2>4. ASSUME body[d] # "player" \/ charIdAt[a] \notin pacifist
        PROVE  dealt > 0
    BY <2>1, <2>2, <2>4, Resolved DEF OnePunchMan
  <2> QED
    BY <2>3, <2>4
<1>3. CASE staged = Nobody
  <2>1. last'.kind = "melee" /\ last'.by = a /\ last'.at = d /\ last'.dealt = dealt
    BY <1>1, <1>3
  <2> HIDE DEF dealt
  <2> QED
    BY <1>1, <1>2, <2>1 DEF PacifistsHarmNoPlayer
<1>4. CASE staged # Nobody
  BY <1>1, <1>4 DEF PacifistsHarmNoPlayer
<1> QED
  BY <1>3, <1>4
-----------------------------------------------------------------------------
\* The blow of no step but a melee hit is a melee blow.
LEMMA OtherBlows ==
  /\ NoBlow.kind = "none"
  /\ \A a, kind, damage : HitApplyDamage(Nobody, a, kind, damage) /\ kind # "melee" => last'.kind # "melee"
BY DEF NoBlow, HitApplyDamage

LEMMA InvInit == CharacterInit => CharacterInv
BY CharacterAssumption
   DEF CharacterInit, CharacterInv, BodyKinds, PlayersHaveIds, OneBodyEach, TickedAreRegistered,
       PacifistsHarmNoPlayer, NoBlow

LEMMA EmbodyInv ==
  ASSUME CharacterInv, NEW a \in BodyAddrs, NEW what \in {"beast", "player"},
         NEW c \in Characters \cup {Nobody}, what = "player" => c \in Characters, Embody(a, what, c)
  PROVE  CharacterInv'
<1> USE CharacterAssumption DEF Embody
<1>1. BodyKinds'
  BY DEF CharacterInv, BodyKinds
<1>2. PlayersHaveIds'
  BY DEF CharacterInv, BodyKinds, PlayersHaveIds
<1>3. OneBodyEach'
  BY DEF CharacterInv, BodyKinds, OneBodyEach
<1>4. a \notin ticked
  BY DEF CharacterInv, TickedAreRegistered
<1>5. TickedAreRegistered'
  BY <1>4 DEF CharacterInv, BodyKinds, TickedAreRegistered
<1>6. PacifistsHarmNoPlayer'
  BY DEF NoBlow, PacifistsHarmNoPlayer
<1> QED
  BY <1>1, <1>2, <1>3, <1>5, <1>6 DEF CharacterInv

LEMMA DisembodyInv ==
  ASSUME CharacterInv, NEW a \in BodyAddrs, Disembody(a)
  PROVE  CharacterInv'
<1> USE DEF Disembody
<1>1. BodyKinds'
  BY DEF CharacterInv, BodyKinds
<1>2. PlayersHaveIds'
  BY DEF CharacterInv, BodyKinds, PlayersHaveIds
<1>3. OneBodyEach'
  BY DEF CharacterInv, BodyKinds, OneBodyEach
<1>4. TickedAreRegistered'
  BY DEF CharacterInv, BodyKinds, TickedAreRegistered
<1>5. PacifistsHarmNoPlayer'
  BY DEF NoBlow, PacifistsHarmNoPlayer
<1> QED
  BY <1>1, <1>2, <1>3, <1>4, <1>5 DEF CharacterInv

LEMMA ProcessTickInv ==
  ASSUME CharacterInv, NEW a \in BodyAddrs, ProcessTick(a)
  PROVE  CharacterInv'
<1> USE DEF ProcessTick
<1>1. charIdAt[a] \in Characters /\ registry' = [registry EXCEPT ![charIdAt[a]] = a]
  BY DEF CharacterInv, BodyKinds, PlayersHaveIds, Registered
<1>2. BodyKinds'
  BY <1>1 DEF CharacterInv, BodyKinds
<1>3. PlayersHaveIds' /\ OneBodyEach'
  BY DEF CharacterInv, PlayersHaveIds, OneBodyEach
<1>4. TickedAreRegistered'
  <2> SUFFICES ASSUME NEW b \in ticked'
               PROVE  b \in BodyAddrs /\ body[b] = "player" /\ registry'[charIdAt[b]] = b
    BY DEF TickedAreRegistered
  <2>1. CASE b = a
    BY <1>1, <2>1 DEF CharacterInv, BodyKinds
  <2>2. CASE b # a
    <3>1. b \in ticked /\ b \in BodyAddrs /\ body[b] = "player" /\ registry[charIdAt[b]] = b
      BY <2>2 DEF CharacterInv, TickedAreRegistered
    <3>2. charIdAt[b] \in Characters /\ charIdAt[b] # charIdAt[a]
      BY <2>2, <3>1 DEF CharacterInv, BodyKinds, PlayersHaveIds, OneBodyEach
    <3> QED
      BY <1>1, <3>1, <3>2 DEF CharacterInv, BodyKinds
  <2> QED
    BY <2>1, <2>2
<1>5. PacifistsHarmNoPlayer'
  BY DEF NoBlow, PacifistsHarmNoPlayer
<1> QED
  BY <1>2, <1>3, <1>4, <1>5 DEF CharacterInv

\* Every step keeps the invariant.
LEMMA InvStep == CharacterInv /\ [CharacterNext]_characterVars => CharacterInv'
<1> SUFFICES ASSUME CharacterInv, [CharacterNext]_characterVars PROVE CharacterInv'
  OBVIOUS
<1> DEFINE Apart == /\ UNCHANGED <<body, charIdAt, registry, ticked>>
                    /\ pacifist' \subseteq Characters
<1>1. ASSUME Apart, PacifistsHarmNoPlayer' PROVE CharacterInv'
  BY <1>1 DEF CharacterInv, BodyKinds, PlayersHaveIds, OneBodyEach, TickedAreRegistered
<1>2. ASSUME last'.kind # "melee" PROVE PacifistsHarmNoPlayer'
  BY <1>2 DEF PacifistsHarmNoPlayer
<1>3. ASSUME NEW a \in BodyAddrs, NEW c \in Characters, Embody(a, "player", c) PROVE CharacterInv'
  BY <1>3, EmbodyInv
<1>4. ASSUME NEW a \in BodyAddrs, Embody(a, "beast", Nobody) PROVE CharacterInv'
  BY <1>4, EmbodyInv
<1>5. ASSUME NEW a \in BodyAddrs, Disembody(a) PROVE CharacterInv'
  BY <1>5, DisembodyInv
<1>6. ASSUME NEW a \in BodyAddrs, ProcessTick(a) PROVE CharacterInv'
  BY <1>6, ProcessTickInv
<1>7. ASSUME NEW c \in Characters, NEW on \in BOOLEAN, SetPacifist(c, on) PROVE CharacterInv'
  <2>1. Apart
    BY <1>7 DEF SetPacifist, CharacterInv, BodyKinds
  <2> QED
    BY <1>1, <1>2, <1>7, <2>1, OtherBlows DEF SetPacifist
<1>8. ASSUME NEW a \in BodyAddrs, NEW d \in BodyAddrs, NEW damage \in 1..Scale, MeleeHit(a, d, damage)
      PROVE  CharacterInv'
  <2>1. Apart
    BY <1>8 DEF MeleeHit, HitApplyDamage, CharacterInv, BodyKinds
  <2> QED
    BY <1>1, <1>8, <2>1, BlowIsRight
<1>9. ASSUME NEW hp \in HpArgs, StageHitOverride(hp) PROVE CharacterInv'
  <2>1. Apart
    BY <1>9 DEF StageHitOverride, CharacterInv, BodyKinds
  <2> QED
    BY <1>1, <1>2, <1>9, <2>1, OtherBlows DEF StageHitOverride
<1>10. ASSUME NEW c, NEW kind, NEW damage, kind # "melee", Command(c, kind, damage) PROVE CharacterInv'
  <2>1. Apart
    BY <1>10 DEF Command, HitApplyDamage, CharacterInv, BodyKinds
  <2> QED
    BY <1>1, <1>2, <1>10, <2>1, OtherBlows DEF Command
<1>11. CASE UNCHANGED characterVars
  BY <1>1, <1>11 DEF characterVars, CharacterInv, BodyKinds, PacifistsHarmNoPlayer
<1> QED
  BY <1>3, <1>4, <1>5, <1>6, <1>7, <1>8, <1>9, <1>10, <1>11
     DEF CharacterNext, SetHardHp, Kill, Knockout

\* A flagged player harms no player whom the tick has seen, and the flag takes
\* nothing off any other blow.
THEOREM PacifistsHarmless == CharacterSpec => []PacifistsHarmNoPlayer
<1>1. CharacterInit => CharacterInv
  BY InvInit
<1>2. CharacterInv /\ [CharacterNext]_characterVars => CharacterInv'
  BY InvStep
<1>3. CharacterInv => PacifistsHarmNoPlayer
  BY DEF CharacterInv
<1> QED
  BY <1>1, <1>2, <1>3, PTL DEF CharacterSpec

-----------------------------------------------------------------------------
(* Effects: any script functions and words of any width.                   *)

Times == 0..Word - 1
Rows  == [expires : Times, applied : Times, magnitude : {0, 1}]

\* What the clients hold is what the server holds; only the overrides differ.
EffectsInv ==
  /\ row \in [Patients -> [EffectIds -> Rows]]
  /\ client = row
  /\ perPlayer \in [Patients -> Windows \cup {0}]
  /\ everyone \in Windows \cup {0}
  /\ callback \in Callbacks \cup {NoCallback}

-----------------------------------------------------------------------------
\* Times wrap within the word, and not before its end.
LEMMA Wraps ==
  ASSUME NEW a \in Times, NEW d \in Times
  PROVE  (a + d) % Word \in Times /\ (a + d < Word => (a + d) % Word = a + d)
<1>1. Word \in Nat /\ Word > 0
  BY EffectsAssumption
<1>2. a + d < Word => (a + d) % Word = a + d
  BY <1>1 DEF Times
<1>3. (a + d) % Word \in Times
  BY <1>1 DEF Times
<1> QED
  BY <1>2, <1>3

\* What is asked for a window is a time, and the engine asks for something.
LEMMA Asking ==
  ASSUME EffectsInv, NEW p \in Patients, NEW d \in Times
  PROVE  /\ Asked(p, d)[1] \in Times /\ Asked(p, d)[2] \in Times
         /\ Asked(p, d)[3] \in Times /\ Asked(p, d)[4] = d
         /\ Asked(p, d)[1] = (IF d \in DOMAIN callback THEN callback[d] ELSE 0)
         /\ Asked(p, d)[2] = perPlayer[p] /\ Asked(p, d)[3] = everyone
<1>1. Word \in Nat /\ Word > 0 /\ Windows \cup {0} \subseteq Times /\ 0 \in Times
  BY EffectsAssumption DEF Times
<1>2. perPlayer[p] \in Times /\ everyone \in Times
  BY <1>1 DEF EffectsInv
<1>3. d \in DOMAIN callback => callback[d] \in Times
  <2>1. CASE callback = NoCallback
    BY <2>1 DEF NoCallback
  <2>2. CASE callback \in Callbacks
    BY <2>2, EffectsAssumption DEF Times
  <2> QED
    BY <2>1, <2>2 DEF EffectsInv
<1> DEFINE answer == IF d \in DOMAIN callback THEN callback[d] ELSE 0
<1>4. answer \in Times
  BY <1>1, <1>3
<1>5. Asked(p, d) = <<answer, perPlayer[p], everyone, d>>
  BY DEF Asked
<1> QED
  BY <1>2, <1>4, <1>5

\* ResolveResurrectionMs answers the first who asks.
LEMMA Resolving ==
  ASSUME EffectsInv, NEW p \in Patients, NEW d \in Times
  PROVE  /\ ResolveResurrectionMs(p, d) \in Times
         /\ d > 0 => \E i \in 1..4 : /\ Asked(p, d)[i] > 0
                                   /\ \A j \in 1..i - 1 : Asked(p, d)[j] = 0
                                   /\ ResolveResurrectionMs(p, d) = Asked(p, d)[i]
<1> DEFINE first  == Asked(p, d)[1]
           second == Asked(p, d)[2]
           third  == Asked(p, d)[3]
           w      == ResolveResurrectionMs(p, d)
<1>1. first \in Nat /\ second \in Nat /\ third \in Nat /\ Asked(p, d)[4] = d
  BY Asking DEF Times
<1>2. w = IF first > 0 THEN first ELSE IF second > 0 THEN second ELSE IF third > 0 THEN third ELSE d
  BY Asking, <1>1 DEF ResolveResurrectionMs, Override
<1>3. w \in Times
  BY <1>2, Asking
<1> HIDE DEF first, second, third, w
<1>4. CASE first > 0
  <2>1. w = first /\ 1 \in 1..4 /\ \A j \in 1..1 - 1 : Asked(p, d)[j] = 0
    BY <1>2, <1>4
  <2> QED
    BY <1>3, <1>4, <2>1 DEF first, w
<1>5. CASE first = 0 /\ second > 0
  <2>1. w = second /\ 2 \in 1..4 /\ \A j \in 1..2 - 1 : j = 1
    BY <1>2, <1>5
  <2> QED
    BY <1>3, <1>5, <2>1 DEF first, second, w
<1>6. CASE first = 0 /\ second = 0 /\ third > 0
  <2>1. w = third /\ 3 \in 1..4 /\ \A j \in 1..3 - 1 : j = 1 \/ j = 2
    BY <1>2, <1>6
  <2> QED
    BY <1>3, <1>6, <2>1 DEF first, second, third, w
<1>7. CASE first = 0 /\ second = 0 /\ third = 0
  <2>1. w = d /\ 4 \in 1..4 /\ \A j \in 1..4 - 1 : j = 1 \/ j = 2 \/ j = 3
    BY <1>2, <1>7
  <2> QED
    BY <1>1, <1>3, <1>7, <2>1 DEF first, second, third, w
<1> QED
  BY <1>1, <1>4, <1>5, <1>6, <1>7

\* What the hook passes on is a row, and it changes no other effect.
LEMMA Adjusting ==
  ASSUME EffectsInv, NEW p \in Patients, NEW e \in EffectIds, NEW delta \in Rows
  PROVE  /\ Adjusted(p, e, delta) \in Rows
         /\ e # Resurrected => Adjusted(p, e, delta) = delta
<1> DEFINE a == delta.applied
           x == delta.expires
<1>1. a \in Times /\ x \in Times
  BY DEF Rows
<1>2. CASE e # Resurrected \/ x <= a
  BY <1>1, <1>2 DEF Adjusted, Times
<1>3. CASE e = Resurrected /\ x > a
  <2>1. x - a \in Times
    BY <1>1, <1>3, EffectsAssumption DEF Times
  <2>2. (a + ResolveResurrectionMs(p, x - a)) % Word \in Times
    BY <1>1, <2>1, Resolving, Wraps
  <2>3. Adjusted(p, e, delta) = [delta EXCEPT !.expires = (a + ResolveResurrectionMs(p, x - a)) % Word]
    BY <1>1, <1>3 DEF Adjusted, Times
  <2> QED
    BY <1>3, <2>2, <2>3 DEF Rows
<1> QED
  BY <1>1, <1>2, <1>3 DEF Times

-----------------------------------------------------------------------------
\* What one broadcast does, whoever asked for it.
LEMMA Broadcast ==
  ASSUME EffectsInv, NEW p \in Patients, NEW e \in EffectIds, NEW delta \in Rows, BroadcastDelta(p, e, delta)
  PROVE  /\ EffectsInv'
         /\ client' = row'
         /\ row'[p][e] = Adjusted(p, e, delta)
         /\ \A q \in Patients, f \in EffectIds : ~(q = p /\ f = e) => row'[q][f] = row[q][f]
<1>1. /\ row' = [row EXCEPT ![p][e] = Adjusted(p, e, delta)] /\ client' = [client EXCEPT ![p][e] = Adjusted(p, e, delta)]
      /\ UNCHANGED <<perPlayer, everyone, callback>>
  BY DEF BroadcastDelta, Mirrored
<1>2. Adjusted(p, e, delta) \in Rows
  BY Adjusting
<1> QED
  BY <1>1, <1>2 DEF EffectsInv

\* The part of ResurrectionAsConfigured that speaks of one row of another effect.
KeepsGiven(p, e) ==
  LET now == row'[p][e] IN
  now # row[p][e] /\ now.expires > now.applied =>
    \E t \in ApplyTimes, d \in Windows :
      now.expires \in {t, (t + d) % Word, (row[p][e].expires + d) % Word}

OthersKeep == \A p \in Patients, e \in EffectIds \ {Resurrected} : KeepsGiven(p, e)

\* The part that speaks of a resurrection.
Lasts(p, now, d) ==
  \E i \in 1..4 : /\ Asked(p, d)[i] > 0
                 /\ \A j \in 1..i - 1 : Asked(p, d)[j] = 0
                 /\ row'[p][Resurrected].expires = (now + Asked(p, d)[i]) % Word

\* An application by the engine whose end does not wrap.
LEMMA Applying ==
  ASSUME EffectsInv, NEW p \in Patients, NEW now \in ApplyTimes, NEW d \in Windows,
         EngineApply(p, Resurrected, now, d), now + d < Word
  PROVE  Lasts(p, now, d)
<1> DEFINE delta == [expires |-> (now + d) % Word, applied |-> now, magnitude |-> 1]
<1>1. /\ Word \in Nat /\ Word > 0 /\ Resurrected \in EffectIds
      /\ now \in Times /\ d \in Times /\ now \in Nat /\ d \in Nat /\ d > 0
  BY EffectsAssumption DEF Times
<1>2. delta.expires = now + d /\ delta.applied = now
  BY <1>1, Wraps
<1>3. delta.expires > delta.applied /\ delta.expires - delta.applied = d
  BY <1>1, <1>2
<1>4. Adjusted(p, Resurrected, delta).expires = (now + ResolveResurrectionMs(p, d)) % Word
  BY <1>2, <1>3, <1>1 DEF Adjusted
<1>5. row'[p][Resurrected] = Adjusted(p, Resurrected, delta)
  BY <1>1 DEF EngineApply, BroadcastDelta, Mirrored, EffectsInv
<1> QED
  BY <1>1, <1>4, <1>5, Resolving DEF Lasts

\* A delta comes from what was given to the effect.
Given(p, e, delta) ==
  \/ delta = row[p][e] \/ delta.expires = 0
  \/ \E t \in ApplyTimes, d \in Windows :
       delta.expires \in {t, (t + d) % Word, (row[p][e].expires + d) % Word}

LEMMA BroadcastStep ==
  ASSUME EffectsInv, NEW p \in Patients, NEW e \in EffectIds, NEW delta \in Rows,
         BroadcastDelta(p, e, delta), Given(p, e, delta)
  PROVE  EffectsInv' /\ client' = row' /\ OthersKeep
<1>1. /\ EffectsInv' /\ client' = row' /\ row'[p][e] = Adjusted(p, e, delta)
      /\ \A q \in Patients, f \in EffectIds : ~(q = p /\ f = e) => row'[q][f] = row[q][f]
  BY Broadcast
<1>2. ASSUME e # Resurrected
      PROVE  KeepsGiven(p, e)
  <2>1. row'[p][e] = delta
    BY <1>1, <1>2, Adjusting
  <2>2. delta.expires = 0 => ~(delta.expires > delta.applied)
    BY DEF Rows, Times
  <2> QED
    BY <2>1, <2>2 DEF KeepsGiven, Given
<1> QED
  BY <1>1, <1>2 DEF OthersKeep, KeepsGiven

\* A step that changes an override and no row.
LEMMA OverrideMeant ==
  ASSUME EffectsInv, UNCHANGED <<row, client>>,
         perPlayer' \in [Patients -> Windows \cup {0}], everyone' \in Windows \cup {0},
         callback' \in Callbacks \cup {NoCallback}
  PROVE  EffectsInv' /\ client' = row' /\ OthersKeep
BY DEF EffectsInv, OthersKeep, KeepsGiven

LEMMA EffectsStep ==
  ASSUME EffectsInv, [EffectsNext]_effectsVars
  PROVE  EffectsInv' /\ client' = row' /\ OthersKeep
<1> DEFINE Goal == EffectsInv' /\ client' = row' /\ OthersKeep
<1>0. /\ Word \in Nat /\ Word > 0 /\ 0 \in Times /\ ApplyTimes \subseteq Times /\ Windows \subseteq Times
      /\ ApplyTimes \subseteq Times
  BY EffectsAssumption DEF Times
<1>1. ASSUME NEW p \in Patients, NEW e \in EffectIds, NEW now \in ApplyTimes, NEW d \in Windows,
             EngineApply(p, e, now, d)
      PROVE  Goal
  <2> DEFINE delta == [expires |-> (now + d) % Word, applied |-> now, magnitude |-> 1]
  <2>1. (now + d) % Word \in Times
    BY <1>0, Wraps
  <2>2. delta \in Rows /\ Given(p, e, delta)
    BY <1>0, <2>1 DEF Rows, Given
  <2> QED
    BY <1>1, <2>2, BroadcastStep DEF EngineApply
<1>2. ASSUME NEW p \in Patients, NEW e \in EffectIds, NEW t \in ApplyTimes, SetEffectExpiry(p, e, t)
      PROVE  Goal
  <2> DEFINE delta == [row[p][e] EXCEPT !.expires = t]
  <2>1. row[p][e] \in Rows /\ t \in Times
    BY <1>0 DEF EffectsInv
  <2>2. delta \in Rows /\ delta.expires = t
    BY <2>1 DEF Rows
  <2>3. Given(p, e, delta)
    <3>1. PICK d \in Windows : TRUE
      BY EffectsAssumption
    <3> QED
      BY <2>2, <3>1 DEF Given
  <2> QED
    BY <1>2, <2>2, <2>3, BroadcastStep DEF SetEffectExpiry
<1>3. ASSUME NEW p \in Patients, NEW e \in EffectIds, NEW d \in Windows, ExtendEffect(p, e, d)
      PROVE  Goal
  <2> DEFINE delta == [row[p][e] EXCEPT !.expires = (@ + d) % Word]
  <2>1. row[p][e] \in Rows /\ row[p][e].expires \in Times /\ d \in Times
    BY <1>0 DEF EffectsInv, Rows
  <2>2. (row[p][e].expires + d) % Word \in Times
    BY <2>1, Wraps
  <2>3. delta \in Rows /\ delta.expires = (row[p][e].expires + d) % Word
    BY <2>1, <2>2 DEF Rows
  <2>4. Given(p, e, delta)
    <3>1. PICK t \in ApplyTimes : TRUE
      BY EffectsAssumption
    <3> QED
      BY <2>3, <3>1 DEF Given
  <2> QED
    BY <1>3, <2>3, <2>4, BroadcastStep DEF ExtendEffect
<1>4. ASSUME NEW p \in Patients, NEW e \in EffectIds, EngineRemove(p, e)
      PROVE  Goal
  <2> DEFINE delta == [row[p][e] EXCEPT !.expires = 0]
  <2>1. row[p][e] \in Rows
    BY DEF EffectsInv
  <2>2. delta \in Rows /\ delta.expires = 0
    BY <1>0, <2>1 DEF Rows
  <2> QED
    BY <1>4, <2>2, BroadcastStep DEF EngineRemove, Given
<1>5. ASSUME NEW p \in Patients, NEW e \in EffectIds, BroadcastEffect(p, e)
      PROVE  Goal
  BY <1>5, BroadcastStep DEF BroadcastEffect, Given, EffectsInv
<1>6. ASSUME NEW p \in Patients, NEW e \in EffectIds, ClearEffect(p, e)
      PROVE  Goal
  <2> DEFINE delta == [row[p][e] EXCEPT !.expires = 0, !.magnitude = 0]
  <2>1. row[p][e] \in Rows
    BY DEF EffectsInv
  <2>2. delta \in Rows /\ delta.expires = 0
    BY <1>0, <2>1 DEF Rows
  <2> QED
    BY <1>6, <2>2, BroadcastStep DEF ClearEffect, Given
<1>7. ASSUME NEW p \in Patients, NEW d \in Windows \cup {0}, SetResurrectionFor(p, d)
      PROVE  Goal
  BY <1>7, OverrideMeant DEF SetResurrectionFor, EffectsInv
<1>8. ASSUME NEW d \in Windows \cup {0}, Resurrection(d)
      PROVE  Goal
  BY <1>8, OverrideMeant DEF Resurrection, EffectsInv
<1>9. ASSUME NEW fn \in Callbacks \cup {NoCallback}, OnResurrection(fn)
      PROVE  Goal
  BY <1>9, OverrideMeant DEF OnResurrection, EffectsInv
<1>10. ASSUME UNCHANGED effectsVars
       PROVE  Goal
  BY <1>10, OverrideMeant DEF effectsVars, EffectsInv
<1> QED
  BY <1>1, <1>2, <1>3, <1>4, <1>5, <1>6, <1>7, <1>8, <1>9, <1>10 DEF EffectsNext

\* ResurrectionAsConfigured: whatever the engine, the administrator and the scripts
\* did before, the server's row and the clients' agree, a resurrection that the
\* engine gives lasts as the first who asked wants it, and no other effect loses
\* what was given to it (BroadcastEffectsHook, lifx_effects.cpp, lifx_timers.cpp).
THEOREM ResurrectionsLast == EffectsSpec => ResurrectionAsConfigured
<1>1. EffectsInit => EffectsInv
  <2>1. NoEffect \in Rows
    BY EffectsAssumption DEF NoEffect, Rows, Times
  <2> QED
    BY <2>1 DEF EffectsInit, EffectsInv
<1>2. EffectsInv /\ [EffectsNext]_effectsVars => EffectsInv'
  BY EffectsStep
<1> DEFINE AsConfigured ==
      /\ client' = row'
      /\ \A p \in Patients, now \in ApplyTimes, d \in Windows :
           EngineApply(p, Resurrected, now, d) /\ now + d < Word => Lasts(p, now, d)
      /\ OthersKeep
<1>3. EffectsInv /\ [EffectsNext]_effectsVars => AsConfigured
  BY EffectsStep, Applying
<1>4. EffectsSpec => [][AsConfigured]_effectsVars
  BY <1>1, <1>2, <1>3, PTL DEF EffectsSpec
<1> QED
  BY <1>4, Zenon DEF ResurrectionAsConfigured, Lasts, OthersKeep, KeepsGiven

-----------------------------------------------------------------------------
(* Zones: checks within checks.                                            *)

Someone == Fighters \cup {NoChar}
Zone    == [geo : GeoIds, type : 0..1, armed : BOOLEAN, gone : BOOLEAN]
Check   == [who : Someone, prev : Someone]

ZoneKinds ==
  /\ zones \in Seq(Zone)
  /\ stack \in Seq(Check)
  /\ exempt \subseteq Someone

\* The engine checks the player at the top of the stack, and each check knows the
\* one it interrupts.
Nested ==
  /\ checking = Walker
  /\ \A i \in 1..Len(stack) : stack[i].prev = IF i = 1 THEN NoChar ELSE stack[i - 1].who

\* What the throttle knows is when the player was really told.
ThrottleTrue ==
  /\ notified = told
  /\ told \in [Fighters -> 0..Throttle]

HoldInv == ZoneKinds /\ Nested /\ ThrottleTrue /\ HoldsTheRightPlayer

-----------------------------------------------------------------------------
\* Whom the engine checks, by the length of the stack.
LEMMA WalkerOf ==
  ASSUME NEW st \in Seq(Check)
  PROVE  /\ Len(st) \in Nat
         /\ st = <<>> <=> Len(st) = 0
         /\ \A i \in 1..Len(st) : st[i].who \in Someone /\ st[i].prev \in Someone
<1>1. Len(st) \in Nat /\ (st = <<>> <=> Len(st) = 0)
  BY EmptySeq
<1>2. \A i \in 1..Len(st) : st[i] \in Check
  OBVIOUS
<1> QED
  BY <1>1, <1>2 DEF Check

\* A query answers for the very player whose steps are checked.
LEMMA QueryHolds ==
  ASSUME HoldInv, NEW id \in DOMAIN zones, IsActiveStartingZone(id)
  PROVE  HoldInv'
<1> DEFINE armed == id \in Live(zones) /\ zones[id].type = 1 /\ zones[id].armed
           held == armed /\ ~IsExempt(checking)
           notice == held /\ checking # NoChar /\ ShouldNotify(checking)
<1>1. /\ UNCHANGED <<zones, arenas, stack, exempt, checking>>
      /\ notified' = IF notice THEN [notified EXCEPT ![checking] = 0] ELSE notified
      /\ told' = IF notice THEN [told EXCEPT ![checking] = 0] ELSE told
      /\ verdict'.who = Walker /\ verdict'.armed = armed /\ verdict'.held = held
      /\ verdict'.notice = notice
      /\ verdict'.waited = IF Walker = NoChar THEN 0 ELSE told[Walker]
  BY DEF IsActiveStartingZone
<1>2. ZoneKinds' /\ Nested'
  BY <1>1 DEF HoldInv, ZoneKinds, Nested, Walker
<1>3. ThrottleTrue'
  <2>1. Throttle \in Nat /\ 0 \in 0..Throttle
    BY BattlezonesAssumption
  <2>2. notified' = told'
    BY <1>1, Zenon DEF HoldInv, ThrottleTrue
  <2>3. told' \in [Fighters -> 0..Throttle]
    BY <1>1, <2>1 DEF HoldInv, ThrottleTrue
  <2> QED
    BY <2>2, <2>3 DEF ThrottleTrue
<1>4. checking = Walker
  BY DEF HoldInv, Nested
<1>5. held <=> armed /\ (Walker = NoChar \/ Walker \notin exempt)
  BY <1>4, Zenon DEF IsExempt
<1>6. notice <=> held /\ Walker # NoChar /\ told[Walker] >= Throttle
  BY <1>4, Zenon DEF ShouldNotify, HoldInv, ThrottleTrue
<1>7. HoldsTheRightPlayer'
  BY <1>1, <1>5, <1>6 DEF HoldsTheRightPlayer
<1> QED
  BY <1>2, <1>3, <1>7 DEF HoldInv

LEMMA CheckHolds ==
  ASSUME HoldInv, NEW c \in Someone, CheckSteps(c)
  PROVE  HoldInv'
<1> DEFINE e == [who |-> c, prev |-> checking]
<1>0. checking \in Someone /\ e \in Check
  <2>1. stack \in Seq(Check) /\ checking = Walker
    BY DEF HoldInv, ZoneKinds, Nested
  <2>2. checking \in Someone
    BY <2>1, WalkerOf DEF Walker, Someone
  <2> QED
    BY <2>2 DEF Check
<1>1. stack' = Append(stack, e) /\ checking' = c /\ stack' \in Seq(Check)
      /\ UNCHANGED <<zones, arenas, exempt, notified, told>> /\ verdict' = NoVerdict
  BY <1>0 DEF CheckSteps, HoldInv, ZoneKinds
<1>2. Len(stack') = Len(stack) + 1 /\ stack'[Len(stack) + 1] = e
      /\ \A i \in 1..Len(stack) : stack'[i] = stack[i]
  BY <1>0, <1>1 DEF HoldInv, ZoneKinds
<1>3. checking' = Walker'
  <2>1. Len(stack) \in Nat /\ stack' # <<>>
    <3>1. Len(stack) \in Nat
      BY WalkerOf DEF HoldInv, ZoneKinds
    <3>2. stack' = <<>> => Len(stack') = 0
      BY <1>1, WalkerOf
    <3> QED
      BY <3>1, <3>2, <1>2
  <2>2. stack'[Len(stack')].who = c
    BY <1>2, <2>1
  <2> QED
    BY <1>1, <2>1, <2>2 DEF Walker
<1>4. \A i \in 1..Len(stack') : stack'[i].prev = IF i = 1 THEN NoChar ELSE stack'[i - 1].who
  <2> SUFFICES ASSUME NEW i \in 1..Len(stack')
               PROVE  stack'[i].prev = IF i = 1 THEN NoChar ELSE stack'[i - 1].who
    OBVIOUS
  <2>1. Len(stack) \in Nat
    BY DEF HoldInv, ZoneKinds
  <2>2. CASE i \in 1..Len(stack)
    BY <1>2, <2>1, <2>2, SMTT(40) DEF HoldInv, Nested
  <2>3. CASE i = Len(stack) + 1
    BY <1>2, <2>1, <2>3 DEF HoldInv, Nested, Walker, ZoneKinds
  <2> QED
    BY <1>2, <2>1, <2>2, <2>3
<1> QED
  BY <1>1, <1>3, <1>4 DEF HoldInv, ZoneKinds, Nested, ThrottleTrue, HoldsTheRightPlayer, NoVerdict

LEMMA ReturnHolds ==
  ASSUME HoldInv, CheckStepsReturn
  PROVE  HoldInv'
<1> DEFINE n == Len(stack)
<1>0. n \in Nat /\ n > 0
  BY EmptySeq DEF HoldInv, ZoneKinds, CheckStepsReturn
<1>1. stack' = SubSeq(stack, 1, n - 1) /\ checking' = stack[n].prev
      /\ UNCHANGED <<zones, arenas, exempt, notified, told>> /\ verdict' = NoVerdict
  BY DEF CheckStepsReturn, Restored
<1>2. stack' \in Seq(Check) /\ Len(stack') = n - 1 /\ \A i \in 1..(n - 1) : stack'[i] = stack[i]
  <2>1. stack \in Seq(Check) /\ 1 \in 1..n + 1 /\ n - 1 \in 0..n
    BY <1>0 DEF HoldInv, ZoneKinds
  <2>2. /\ SubSeq(stack, 1, n - 1) \in Seq(Check) /\ Len(SubSeq(stack, 1, n - 1)) = n - 1
        /\ \A i \in 1..(n - 1) : SubSeq(stack, 1, n - 1)[i] = stack[i]
    <3>1. \A i \in 1..(n - 1) : stack[i] \in Check
      BY <1>0, <2>1
    <3>2. /\ SubSeq(stack, 1, n - 1) \in Seq(Check)
          /\ Len(SubSeq(stack, 1, n - 1)) = IF 1 <= n - 1 THEN n - 1 - 1 + 1 ELSE 0
          /\ \A i \in 1..(n - 1 - 1 + 1) : SubSeq(stack, 1, n - 1)[i] = stack[1 + i - 1]
      <4>1. 1 \in Int /\ n - 1 \in Int
        BY <1>0
      <4> QED
        BY <3>1, <4>1, SubSeqProperties
    <3>3. /\ n - 1 - 1 + 1 = n - 1 /\ (IF 1 <= n - 1 THEN n - 1 - 1 + 1 ELSE 0) = n - 1
          /\ \A i \in 1..(n - 1) : 1 + i - 1 = i
      <4>1. \A k \in Nat : k > 0 => /\ k - 1 - 1 + 1 = k - 1
                                     /\ (IF 1 <= k - 1 THEN k - 1 - 1 + 1 ELSE 0) = k - 1
        OBVIOUS
      <4>2. \A i \in 1..(n - 1) : 1 + i - 1 = i
        OBVIOUS
      <4> QED
        BY <1>0, <4>1, <4>2, Zenon
    <3> QED
      BY <3>2, <3>3, Zenon
  <2> QED
    BY <1>1, <2>2
<1>3. checking' = Walker'
  <2>1. stack' = <<>> <=> n = 1
    BY <1>0, <1>2, WalkerOf
  <2>2. stack[n].prev = IF n = 1 THEN NoChar ELSE stack[n - 1].who
    <3>1. \A i \in 1..n : stack[i].prev = IF i = 1 THEN NoChar ELSE stack[i - 1].who
      BY DEF HoldInv, Nested
    <3> QED
      BY <1>0, <3>1
  <2>3. CASE n = 1
    BY <1>1, <2>1, <2>2, <2>3 DEF Walker
  <2>4. CASE n # 1
    <3>1. stack'[Len(stack')].who = stack[n - 1].who
      BY <1>0, <1>2, <2>4
    <3> QED
      BY <1>1, <2>1, <2>2, <2>4, <3>1 DEF Walker
  <2> QED
    BY <2>3, <2>4
<1>4. \A i \in 1..Len(stack') : stack'[i].prev = IF i = 1 THEN NoChar ELSE stack'[i - 1].who
  BY <1>0, <1>2 DEF HoldInv, Nested
<1> QED
  BY <1>1, <1>2, <1>3, <1>4 DEF HoldInv, ZoneKinds, Nested, ThrottleTrue, HoldsTheRightPlayer, NoVerdict

-----------------------------------------------------------------------------
\* Everything else leaves the checks alone and clears the last answer.
LEMMA QuietHolds ==
  ASSUME HoldInv, zones' \in Seq(Zone), exempt' \subseteq Someone, Quiet
  PROVE  HoldInv'
BY DEF HoldInv, ZoneKinds, Nested, Walker, ThrottleTrue, HoldsTheRightPlayer, Quiet, NoVerdict

\* Time passes for the throttle and for what it stands for alike.
LEMMA PassHolds ==
  ASSUME HoldInv, Pass
  PROVE  HoldInv'
<1>1. /\ UNCHANGED <<zones, arenas, stack, exempt, checking>> /\ verdict' = NoVerdict
      /\ notified' = [c \in Fighters |-> IF notified[c] < Throttle THEN notified[c] + 1 ELSE Throttle]
      /\ told' = [c \in Fighters |-> IF told[c] < Throttle THEN told[c] + 1 ELSE Throttle]
  BY DEF Pass
<1>2. Throttle \in Nat
  BY BattlezonesAssumption
<1>3. notified' = told'
  BY <1>1, Zenon DEF HoldInv, ThrottleTrue
<1>4. told' \in [Fighters -> 0..Throttle]
  BY <1>1, <1>2 DEF HoldInv, ThrottleTrue
<1> QED
  BY <1>1, <1>3, <1>4 DEF HoldInv, ZoneKinds, Nested, Walker, ThrottleTrue, HoldsTheRightPlayer, NoVerdict

LEMMA FreshHolds ==
  /\ ZonesInit => HoldInv
  /\ Reboot => HoldInv'
<1>1. Throttle \in 0..Throttle
  BY BattlezonesAssumption
<1>2. ASSUME ZonesInit PROVE HoldInv
  BY <1>1, <1>2 DEF ZonesInit, HoldInv, ZoneKinds, Nested, Walker, HoldsTheRightPlayer, NoVerdict, ThrottleTrue
<1>3. ASSUME Reboot PROVE HoldInv'
  BY <1>1, <1>3 DEF Reboot, HoldInv, ZoneKinds, Nested, Walker, HoldsTheRightPlayer, NoVerdict, ThrottleTrue
<1> QED
  BY <1>2, <1>3

-----------------------------------------------------------------------------
\* To change the entry of one zone keeps the list one of zones.
LEMMA Changed ==
  ASSUME NEW list \in Seq(Zone), NEW id \in 1..Len(list), NEW z \in Zone
  PROVE  [list EXCEPT ![id] = z] \in Seq(Zone)
BY ExceptSeq

LEMMA Arming ==
  ASSUME NEW list \in Seq(Zone), NEW id, NEW active \in BOOLEAN
  PROVE  Armed(list, id, active) \in Seq(Zone)
<1> DEFINE z == [geo |-> list[id].geo, gone |-> list[id].gone, armed |-> active,
                 type |-> IF active THEN 1 ELSE list[id].type]
<1>1. CASE id \in Live(list)
  <2>1. id \in 1..Len(list)
    BY <1>1 DEF Live
  <2>2. z \in Zone
    <3>1. list[id] \in Zone
      BY <2>1
    <3> QED
      BY <3>1 DEF Zone
  <2>3. Armed(list, id, active) = [list EXCEPT ![id] = z]
    BY <1>1 DEF Armed
  <2> HIDE DEF z
  <2> QED
    BY <2>1, <2>2, <2>3, Changed
<1>2. CASE id \notin Live(list)
  BY <1>2 DEF Armed
<1> QED
  BY <1>1, <1>2

LEMMA Deleting ==
  ASSUME NEW list \in Seq(Zone), NEW id
  PROVE  Deleted(list, id) \in Seq(Zone)
<1> DEFINE z == [list[id] EXCEPT !.gone = TRUE]
<1>1. CASE id \in Live(list)
  <2>1. id \in 1..Len(list)
    BY <1>1 DEF Live
  <2>2. z \in Zone
    <3>1. list[id] \in Zone
      BY <2>1
    <3> QED
      BY <3>1 DEF Zone
  <2>3. Deleted(list, id) = [list EXCEPT ![id] = z]
    BY <1>1 DEF Deleted
  <2> HIDE DEF z
  <2> QED
    BY <2>1, <2>2, <2>3, Changed
<1>2. CASE id \notin Live(list)
  BY <1>2 DEF Deleted
<1> QED
  BY <1>1, <1>2

\* The zone just made is the last at its place, so the read-back finds it.
LEMMA ReadsBackLast ==
  ASSUME NEW list \in Seq(Zone), NEW z \in Zone, ~z.gone
  PROVE  ReadBack(Append(list, z), z.geo) = Len(list) + 1
<1> DEFINE new == Append(list, z)
           top == Len(list) + 1
           there == {i \in Live(new) : new[i].geo = z.geo}
<1>1. new \in Seq(Zone) /\ Len(new) = top /\ new[top] = z /\ DOMAIN new = 1..top /\ top \in Nat /\ top \in 1..top
  OBVIOUS
<1> HIDE DEF new, top
<1>2. top \in Live(new) /\ top \in there
  BY <1>1 DEF Live
<1>3. \A i \in there : i \in 1..top /\ i \in Nat
  BY <1>1 DEF Live
<1>4. \A j \in there : top >= j
  BY <1>1, <1>3
<1>5. ASSUME NEW i \in there, \A j \in there : i >= j
      PROVE  i = top
  <2> HIDE DEF there
  <2>1. i >= top /\ top >= i /\ i \in Nat /\ top \in Nat
    BY <1>1, <1>2, <1>3, <1>4, <1>5
  <2> QED
    BY <2>1
<1>6. Greatest(there) = top
  <2> HIDE DEF there
  <2> QED
    BY <1>2, <1>4, <1>5 DEF Greatest
<1>7. there # {}
  BY <1>2
<1>8. ReadBack(new, z.geo) = Greatest(there)
  BY <1>7, Zenon DEF ReadBack
<1> QED
  BY <1>6, <1>8 DEF new, top

\* If the engine makes the zone, the id that Lifx::createBattleZone reads back is the
\* new zone's, however many zones there are at the place (lifx_battlezone.cpp); of a
\* zone that is refused this says nothing.
THEOREM ReadsBackItsOwn ==
  ASSUME zones \in Seq(Zone), NEW type \in 0..1, NEW geo \in GeoIds
  PROVE  ReadBack(EngineZones(type, geo, TRUE), geo) = Len(zones) + 1
<1> DEFINE z == [geo |-> geo, type |-> type, armed |-> TRUE, gone |-> FALSE]
<1>1. z \in Zone /\ z.geo = geo /\ ~z.gone /\ EngineZones(type, geo, TRUE) = Append(zones, z)
  BY DEF Zone, EngineZones
<1> HIDE DEF z
<1> QED
  BY <1>1, ReadsBackLast

LEMMA CreateHolds ==
  ASSUME HoldInv, NEW type \in 0..1, NEW geo \in GeoIds, NEW arm \in BOOLEAN, NEW arena \in BOOLEAN,
         NEW created \in BOOLEAN, CreateBattleZone(type, geo, arm, arena, created)
  PROVE  HoldInv'
<1> DEFINE list == EngineZones(type, geo, created)
           id == ReadBack(list, geo)
<1>1. zones \in Seq(Zone) /\ exempt \subseteq Someone
  BY DEF HoldInv, ZoneKinds
<1>2. list \in Seq(Zone)
  <2>1. [geo |-> geo, type |-> type, armed |-> TRUE, gone |-> FALSE] \in Zone
    BY DEF Zone
  <2> QED
    BY <1>1, <2>1 DEF EngineZones
<1>3. zones' \in {list, Armed(list, id, TRUE)} /\ UNCHANGED exempt /\ Quiet
  BY DEF CreateBattleZone
<1> HIDE DEF list, id
<1>4. zones' \in Seq(Zone)
  BY <1>2, <1>3, Arming
<1> QED
  BY <1>1, <1>3, <1>4, QuietHolds

\* The end of an arena, whosever zone it has.
LEMMA EndHolds ==
  ASSUME HoldInv, NEW n \in DOMAIN arenas, ArenaEnd(n)
  PROVE  HoldInv'
<1>1. zones \in Seq(Zone) /\ exempt' \subseteq Someone /\ Quiet
  BY DEF HoldInv, ZoneKinds, ArenaEnd
<1>2. PICK list : list = Armed(zones, arenas[n].id, FALSE) /\ zones' = Deleted(list, arenas[n].id)
  BY DEF ArenaEnd
<1>3. list \in Seq(Zone)
  BY <1>1, <1>2, Arming
<1>4. zones' \in Seq(Zone)
  BY <1>2, <1>3, Deleting
<1> QED
  BY <1>1, <1>4, QuietHolds

LEMMA CommandHolds ==
  ASSUME HoldInv, NEW id, NEW on \in BOOLEAN, SetBattleZoneActive(id, on) \/ DeleteBattleZone(id)
  PROVE  HoldInv'
<1>1. zones \in Seq(Zone) /\ exempt' \subseteq Someone /\ Quiet
  BY DEF HoldInv, ZoneKinds, SetBattleZoneActive, DeleteBattleZone
<1>2. zones' = Armed(zones, id, on) \/ zones' = Deleted(zones, id)
  BY DEF SetBattleZoneActive, DeleteBattleZone
<1>3. zones' \in Seq(Zone)
  BY <1>1, <1>2, Arming, Deleting
<1> QED
  BY <1>1, <1>3, QuietHolds

-----------------------------------------------------------------------------
LEMMA ZonesStep ==
  ASSUME HoldInv, [ZonesNext]_zonesVars
  PROVE  HoldInv'
<1>1. ASSUME NEW type \in 0..1, NEW geo \in GeoIds, NEW arm \in BOOLEAN, NEW created \in BOOLEAN,
             CreateBattleZone(type, geo, arm, FALSE, created)
      PROVE  HoldInv'
  BY <1>1, CreateHolds
<1>2. ASSUME NEW geo \in GeoIds, NEW created \in BOOLEAN, CreateBattleZone(1, geo, TRUE, TRUE, created)
      PROVE  HoldInv'
  <2>1. 1 \in 0..1
    OBVIOUS
  <2> QED
    BY <1>2, <2>1, CreateHolds, Zenon
<1>3. ASSUME NEW n \in DOMAIN arenas, ArenaEnd(n)
      PROVE  HoldInv'
  BY <1>3, EndHolds
<1>4. ASSUME NEW id \in DOMAIN zones,
             DeleteBattleZone(id) \/ \E on \in BOOLEAN : SetBattleZoneActive(id, on)
      PROVE  HoldInv'
  BY <1>4, CommandHolds
<1>5. ASSUME NEW c \in Someone, CheckSteps(c)
      PROVE  HoldInv'
  BY <1>5, CheckHolds
<1>6. ASSUME NEW c \in Someone, NEW on \in BOOLEAN, SetExempt(c, on)
      PROVE  HoldInv'
  <2>1. zones' \in Seq(Zone) /\ Quiet /\ exempt' \subseteq Someone
    BY <1>6 DEF SetExempt, HoldInv, ZoneKinds
  <2> QED
    BY <2>1, QuietHolds
<1>7. ASSUME NEW id \in DOMAIN zones, IsActiveStartingZone(id)
      PROVE  HoldInv'
  BY <1>7, QueryHolds
<1>8. ASSUME CheckStepsReturn
      PROVE  HoldInv'
  BY <1>8, ReturnHolds
<1>9. ASSUME Pass
      PROVE  HoldInv'
  BY <1>9, PassHolds
<1>10. ASSUME Reboot
       PROVE  HoldInv'
  BY <1>10, FreshHolds
<1>11. ASSUME UNCHANGED zonesVars
       PROVE  HoldInv'
  BY <1>11 DEF zonesVars, HoldInv, ZoneKinds, Nested, Walker, ThrottleTrue, HoldsTheRightPlayer
<1> QED
  BY <1>1, <1>2, <1>3, <1>4, <1>5, <1>6, <1>7, <1>8, <1>9, <1>10, <1>11, Zenon DEF ZonesNext, Someone

\* HoldsTheRightPlayer, for any players and zones and checks nested to any depth: an
\* armed zone holds the very player being checked unless that player is exempt, and
\* tells whom it holds (CheckStepsCall, IsActiveStartingZoneCall).
THEOREM ZonesHoldRight == ZonesSpec => []HoldsTheRightPlayer
<1>1. ZonesInit => HoldInv
  BY FreshHolds
<1>2. HoldInv /\ [ZonesNext]_zonesVars => HoldInv'
  BY ZonesStep
<1>3. HoldInv => HoldsTheRightPlayer
  BY DEF HoldInv
<1> QED
  BY <1>1, <1>2, <1>3, PTL DEF ZonesSpec

-----------------------------------------------------------------------------
(* One grid.                                                                *)

\* Where a position is, counted in cells from the south-west.
Col(g, x) == (x - West(g)) \div (2 * g.half)
Row(g, y) == (y - South(g)) \div (2 * g.half)

LEMMA Edges ==
  ASSUME NEW g \in GridSpec
  PROVE  /\ g.half \in Int /\ g.cols \in Nat /\ g.rows \in Nat /\ g.first \in Nat
         /\ g.x0 \in Int /\ g.y0 \in Int
         /\ West(g) \in Int /\ South(g) \in Int /\ East(g) \in Int /\ North(g) \in Int
         /\ Width(g) \in Int /\ Height(g) \in Int
         /\ Width(g) = (2 * g.half) * g.cols /\ Height(g) = (2 * g.half) * g.rows
BY DEF GridSpec, West, South, East, North, Width, Height

\* A position is in the square around the centre of one cell only.
LEMMA OneCell ==
  ASSUME NEW g \in GridSpec, g.half > 0, NEW x \in Int, NEW y \in Int, NEW col \in Int, NEW line \in Int
  PROVE  InCell(g, col, line, x, y) <=> col = Col(g, x) /\ line = Row(g, y)
<1> DEFINE b == 2 * g.half
<1>1. b \in Int /\ b > 0 /\ x - West(g) \in Int /\ y - South(g) \in Int
  BY Edges
<1>2. InCell(g, col, line, x, y) <=>
        /\ b * col <= x - West(g) /\ x - West(g) < b * col + b
        /\ b * line <= y - South(g) /\ y - South(g) < b * line + b
  <2>1. col * 2 * g.half = b * col /\ line * 2 * g.half = b * line /\ b * col \in Int /\ b * line \in Int
    BY Edges
  <2>2. b = g.half + g.half /\ g.half \in Int /\ g.x0 \in Int /\ g.y0 \in Int
    BY Edges
  <2> HIDE DEF b
  <2> QED
    BY <2>1, <2>2 DEF InCell, West, South
<1>3. /\ b * col <= x - West(g) /\ x - West(g) < b * col + b <=> col = (x - West(g)) \div b
      /\ b * line <= y - South(g) /\ y - South(g) < b * line + b <=> line = (y - South(g)) \div b
  <2> HIDE DEF b
  <2> QED
    BY <1>1, Quotient, Division
<1> QED
  BY <1>2, <1>3 DEF Col, Row

\* Locate's comparisons with the edges say that the cell is one of the grid's.
LEMMA CoversIs ==
  ASSUME NEW g \in GridSpec, g.half > 0, NEW x \in Int, NEW y \in Int
  PROVE  /\ Covers(g, x, y) <=> Col(g, x) \in 0..(g.cols - 1) /\ Row(g, y) \in 0..(g.rows - 1)
         /\ Col(g, x) \in Int /\ Row(g, y) \in Int
<1> DEFINE b == 2 * g.half
<1>1. b \in Int /\ b > 0 /\ x - West(g) \in Int /\ y - South(g) \in Int /\ g.cols \in Nat /\ g.rows \in Nat
  BY Edges
<1>2. /\ Col(g, x) \in 0..(g.cols - 1) <=> 0 <= x - West(g) /\ x - West(g) < b * g.cols
      /\ Row(g, y) \in 0..(g.rows - 1) <=> 0 <= y - South(g) /\ y - South(g) < b * g.rows
      /\ Col(g, x) \in Int /\ Row(g, y) \in Int
  <2>1. Col(g, x) = (x - West(g)) \div b /\ Row(g, y) = (y - South(g)) \div b
    BY DEF Col, Row
  <2> HIDE DEF b
  <2> QED
    BY <1>1, <2>1, Within, Division
<1>3. /\ 0 <= x - West(g) /\ x - West(g) < b * g.cols <=> West(g) <= x /\ x < East(g)
      /\ 0 <= y - South(g) /\ y - South(g) < b * g.rows <=> South(g) <= y /\ y < North(g)
  <2>1. East(g) = West(g) + b * g.cols /\ North(g) = South(g) + b * g.rows
    BY Edges DEF East, North
  <2>2. b * g.cols \in Int /\ b * g.rows \in Int /\ West(g) \in Int /\ South(g) \in Int
    BY Edges
  <2> HIDE DEF b
  <2> QED
    BY <2>1, <2>2
<1>4. Col(g, x) \in 0..(g.cols - 1) /\ Row(g, y) \in 0..(g.rows - 1) => Configured(g)
  BY <1>1, <1>2 DEF Configured
<1> QED
  BY <1>2, <1>3, <1>4 DEF Covers

\* A position is in the one sector that SectorForPos computes, or in none.
LEMMA SectorsAre ==
  ASSUME NEW g \in GridSpec, NEW x \in Int, NEW y \in Int
  PROVE  SectorsAt(g, x, y) = IF Covers(g, x, y) THEN {SectorOf(g, x, y)} ELSE {}
<1>1. CASE g.half > 0
  <2>1. /\ Covers(g, x, y) <=> Col(g, x) \in 0..(g.cols - 1) /\ Row(g, y) \in 0..(g.rows - 1)
        /\ Col(g, x) \in Int /\ Row(g, y) \in Int
    BY <1>1, CoversIs
  <2>2. \A c \in (0..(g.cols - 1)) \X (0..(g.rows - 1)) :
          InCell(g, c[1], c[2], x, y) <=> c[1] = Col(g, x) /\ c[2] = Row(g, y)
    BY <1>1, OneCell
  <2>3. {c \in (0..(g.cols - 1)) \X (0..(g.rows - 1)) : InCell(g, c[1], c[2], x, y)}
          = IF Covers(g, x, y) THEN {<<Col(g, x), Row(g, y)>>} ELSE {}
    BY <2>1, <2>2
  <2>4. SectorOf(g, x, y) = g.first + Row(g, y) * g.cols + Col(g, x)
    BY DEF SectorOf, Col, Row
  <2>5. \A A : A = {<<Col(g, x), Row(g, y)>>} =>
               {g.first + c[2] * g.cols + c[1] : c \in A} = {SectorOf(g, x, y)}
    BY <2>4
  <2> QED
    BY <2>3, <2>5 DEF SectorsAt
<1>2. CASE ~(g.half > 0)
  <2>1. \A c \in (0..(g.cols - 1)) \X (0..(g.rows - 1)) : ~InCell(g, c[1], c[2], x, y)
    <3> SUFFICES ASSUME NEW c \in (0..(g.cols - 1)) \X (0..(g.rows - 1)), InCell(g, c[1], c[2], x, y)
                 PROVE  FALSE
      OBVIOUS
    <3>1. PICK cx \in Int : cx = g.x0 + c[1] * 2 * g.half
      BY Edges
    <3>2. cx - g.half <= x /\ x < cx + g.half
      BY <3>1 DEF InCell
    <3> QED
      BY <1>2, <3>2, Edges
  <2>2. ~Covers(g, x, y)
    BY <1>2 DEF Covers, Configured
  <2> QED
    BY <2>1, <2>2 DEF SectorsAt
<1> QED
  BY <1>1, <1>2

\* The ids that a grid takes, row after row.
SectorIds(g) == g.first..(g.first + g.cols * g.rows - 1)

LEMMA SectorOfGrid ==
  ASSUME NEW g \in GridSpec, NEW x \in Int, NEW y \in Int, Covers(g, x, y)
  PROVE  SectorOf(g, x, y) \in SectorIds(g)
<1>1. g.half > 0 /\ g.cols > 0 /\ g.cols \in Nat /\ g.rows \in Nat /\ g.first \in Nat
  BY Edges DEF Covers, Configured
<1>2. PICK col, line \in Int : col = Col(g, x) /\ line = Row(g, y) /\ col \in 0..(g.cols - 1) /\ line \in 0..(g.rows - 1)
  BY <1>1, CoversIs
<1>3. g.cols * line + g.cols <= g.cols * g.rows
  BY <1>1, <1>2, Monotone
<1>4. g.cols * line >= 0 /\ g.cols * line \in Int /\ g.cols * g.rows \in Int /\ line * g.cols = g.cols * line
  BY <1>1, <1>2
<1>5. SectorOf(g, x, y) = g.first + line * g.cols + col
  BY <1>2 DEF SectorOf, Col, Row
<1>6. SectorOf(g, x, y) = g.first + g.cols * line + col
  BY <1>4, <1>5
<1> QED
  BY <1>1, <1>2, <1>3, <1>4, <1>6 DEF SectorIds

-----------------------------------------------------------------------------
(* SectorForPos.                                                            *)

\* The worlds a server may be given, with their neighbours.
LEMMA WorldIs ==
  ASSUME NEW w \in Worlds
  PROVE  /\ w.self \in GridSpec /\ Len(w.neighbours) \in Nat
         /\ \A i \in 1..Len(w.neighbours) :
              /\ w.neighbours[i] \in Neighbours /\ w.neighbours[i].grid \in GridSpec
              /\ w.neighbours[i].dir \in {"north", "south", "east", "west"}
              /\ Configured(w.neighbours[i].grid) /\ w.neighbours[i].grid.first > 0
<1>1. w.neighbours \in Seq(Neighbours)
  BY SectorEdgeAssumption
<1>2. \A i \in 1..Len(w.neighbours) : w.neighbours[i] \in Neighbours
  BY <1>1
<1> QED
  BY <1>1, <1>2, SectorEdgeAssumption DEF Neighbours

LEMMA Translated ==
  ASSUME NEW w \in Worlds, NEW i \in 1..Len(w.neighbours), NEW x \in Int, NEW y \in Int
  PROVE  \E lx, ly \in Int : ToNeighbour(w.self, w.neighbours[i], x, y) = <<lx, ly>>
<1> DEFINE g == w.self
           n == w.neighbours[i].grid
<1>1. g \in GridSpec /\ n \in GridSpec
  BY WorldIs
<1>2. /\ West(g) \in Int /\ South(g) \in Int /\ East(g) \in Int /\ North(g) \in Int
      /\ Width(g) \in Int /\ Height(g) \in Int
      /\ West(n) \in Int /\ South(n) \in Int /\ Width(n) \in Int /\ Height(n) \in Int
  BY <1>1, Edges
<1>3. CASE w.neighbours[i].dir = "east"
  BY <1>2, <1>3, SMTT(40) DEF ToNeighbour
<1>4. CASE w.neighbours[i].dir = "west"
  BY <1>2, <1>4, SMTT(40) DEF ToNeighbour
<1>5. CASE w.neighbours[i].dir = "north"
  BY <1>2, <1>5, SMTT(40) DEF ToNeighbour
<1>6. CASE w.neighbours[i].dir = "south"
  BY <1>2, <1>6, SMTT(40) DEF ToNeighbour
<1> QED
  BY <1>3, <1>4, <1>5, <1>6, WorldIs

\* What a neighbour's answer looks like.
Foreign(w, i, l) ==
  [sector |-> SectorOf(w.neighbours[i].grid, l[1], l[2]), isSelf |-> FALSE,
   x |-> l[1], y |-> l[2], host |-> w.neighbours[i].host, world |-> i]

\* The position is on the own grid, or on no grid, or on that of a neighbour.
LEMMA Answers ==
  ASSUME NEW w \in Worlds, NEW x \in Int, NEW y \in Int,
         NEW r, r = SectorForPos(w.self, w.neighbours, x, y)
  PROVE  \/ /\ Covers(w.self, x, y)
            /\ r = [sector |-> SectorOf(w.self, x, y), isSelf |-> TRUE, x |-> x, y |-> y,
                    host |-> FALSE, world |-> 0]
         \/ /\ ~Covers(w.self, x, y) /\ r = OffWorld
            /\ \A i \in 1..Len(w.neighbours) : ~NeighbourCovers(w.self, w.neighbours, i, x, y)
         \/ /\ ~Covers(w.self, x, y)
            /\ \E i \in 1..Len(w.neighbours) :
                 /\ NeighbourCovers(w.self, w.neighbours, i, x, y)
                 /\ r = Foreign(w, i, ToNeighbour(w.self, w.neighbours[i], x, y))
<1> DEFINE hits == {i \in 1..Len(w.neighbours) : NeighbourCovers(w.self, w.neighbours, i, x, y)}
<1>1. CASE Covers(w.self, x, y)
  BY <1>1 DEF SectorForPos
<1>2. CASE ~Covers(w.self, x, y) /\ hits = {}
  BY <1>2 DEF SectorForPos
<1>3. CASE ~Covers(w.self, x, y) /\ hits # {}
  <2>1. hits \subseteq Nat
    BY WorldIs
  <2>2. \E j \in hits : \A k \in hits : j <= k
    <3> HIDE DEF hits
    <3> QED
      BY <1>3, <2>1, LeastOf
  <2>3. PICK i : i = CHOOSE j \in hits : \A k \in hits : j <= k
    OBVIOUS
  <2>4. i \in hits
    <3> HIDE DEF hits
    <3> QED
      BY <2>2, <2>3
  <2>5. r = Foreign(w, i, ToNeighbour(w.self, w.neighbours[i], x, y))
    BY <1>3, <2>3 DEF SectorForPos, Foreign
  <2> QED
    BY <1>3, <2>4, <2>5
<1> QED
  BY <1>1, <1>2, <1>3

-----------------------------------------------------------------------------
(* The positions of the players.                                            *)

Kinds ==
  /\ world \in Worlds
  /\ pos \in [Players -> Coords \X Coords]
  /\ lastPlayer \in Players \union {None}

LEMMA KindsHold == Spec => []Kinds
<1>1. Init => Kinds
  BY DEF Init, Kinds
<1>2. Kinds /\ [Next]_vars => Kinds'
  <2> SUFFICES ASSUME Kinds, [Next]_vars PROVE Kinds'
    OBVIOUS
  <2>1. ASSUME NEW p \in Players, SetControlObject(p) PROVE Kinds'
    BY <2>1 DEF Kinds, SetControlObject
  <2>2. ASSUME NEW p \in Players, Walk(p) PROVE Kinds'
    <3>1. PICK q \in Coords \X Coords : pos' = [pos EXCEPT ![p] = q]
      BY <2>2 DEF Walk
    <3> QED
      BY <2>2, <3>1 DEF Kinds, Walk
  <2>3. ASSUME IntervalPasses \/ OnTick PROVE Kinds'
    BY <2>3 DEF Kinds, IntervalPasses, OnTick, TickNoPlayer, TickOffWorld, TickSelf, TickLatched, TickFire
  <2>4. CASE UNCHANGED vars
    BY <2>4 DEF Kinds, vars
  <2> QED
    BY <2>1, <2>2, <2>3, <2>4 DEF Next
<1> QED
  BY <1>1, <1>2, PTL DEF Spec

LEMMA Standing ==
  ASSUME Kinds, NEW p \in Players
  PROVE  pos[p][1] \in Int /\ pos[p][2] \in Int
BY SectorEdgeAssumption DEF Kinds

\* world_grid.h on cells and ids, for any worlds: a position of our own grid is in
\* the sector SectorForPos returns and in no other, and one that is handed to a
\* neighbour lies in that sector of the neighbour.
THEOREM Declared == Spec => []SectorsAsDeclared
<1>1. Kinds => SectorsAsDeclared
  <2> SUFFICES ASSUME Kinds, NEW p \in Players, NEW x, x = pos[p][1], NEW y, y = pos[p][2],
                      NEW r, r = Resolve(p)
               PROVE  /\ SectorsAt(world.self, x, y) # {} <=> r.isSelf
                      /\ r.isSelf => SectorsAt(world.self, x, y) = {r.sector}
                      /\ r.world # 0 => SectorsAt(world.neighbours[r.world].grid, r.x, r.y) = {r.sector}
    BY DEF SectorsAsDeclared
  <2>1. x \in Int /\ y \in Int /\ world \in Worlds /\ world.self \in GridSpec
    BY Standing, WorldIs DEF Kinds
  <2>2. SectorsAt(world.self, x, y) = IF Covers(world.self, x, y) THEN {SectorOf(world.self, x, y)} ELSE {}
    BY <2>1, SectorsAre
  <2>3. r = SectorForPos(world.self, world.neighbours, x, y)
    BY DEF Resolve
  <2>4. CASE Covers(world.self, x, y)
    <3>1. r.isSelf = TRUE /\ r.sector = SectorOf(world.self, x, y) /\ r.world = 0
      BY <2>1, <2>3, <2>4, Answers
    <3> QED
      BY <2>2, <2>4, <3>1
  <2>5. CASE ~Covers(world.self, x, y) /\ r = OffWorld
    BY <2>2, <2>5 DEF OffWorld
  <2>6. ASSUME NEW i \in 1..Len(world.neighbours), ~Covers(world.self, x, y),
               NeighbourCovers(world.self, world.neighbours, i, x, y),
               r = Foreign(world, i, ToNeighbour(world.self, world.neighbours[i], x, y))
        PROVE  /\ SectorsAt(world.self, x, y) # {} <=> r.isSelf
               /\ r.isSelf => SectorsAt(world.self, x, y) = {r.sector}
               /\ r.world # 0 => SectorsAt(world.neighbours[r.world].grid, r.x, r.y) = {r.sector}
    <3>1. PICK lx, ly \in Int : ToNeighbour(world.self, world.neighbours[i], x, y) = <<lx, ly>>
      BY <2>1, Translated, ZenonT(60)
    <3>2. world.neighbours[i].grid \in GridSpec
      BY <2>1, WorldIs
    <3>3. Covers(world.neighbours[i].grid, lx, ly)
      BY <2>6, <3>1 DEF NeighbourCovers
    <3>4. SectorsAt(world.neighbours[i].grid, lx, ly) = {SectorOf(world.neighbours[i].grid, lx, ly)}
      BY <3>2, <3>3, SectorsAre
    <3>5. r.isSelf = FALSE /\ r.world = i /\ r.x = lx /\ r.y = ly
          /\ r.sector = SectorOf(world.neighbours[i].grid, lx, ly)
      BY <2>6, <3>1 DEF Foreign
    <3> QED
      BY <2>2, <2>6, <3>4, <3>5
  <2> QED
    BY <2>1, <2>3, <2>4, <2>5, <2>6, Answers
<1> QED
  BY <1>1, KindsHold, PTL

\* Every neighbour lies beyond our east or our north edge.
EastAndNorth == \A w \in Worlds : \A i \in 1..Len(w.neighbours) : w.neighbours[i].dir \in {"east", "north"}

\* Beyond those edges the translation is the stitching, and leads nowhere from
\* this side of them.
LEMMA Seams ==
  ASSUME EastAndNorth, NEW w \in Worlds, NEW i \in 1..Len(w.neighbours), NEW x \in Int, NEW y \in Int,
         NEW nb, nb = w.neighbours[i]
  PROVE  /\ Stitched(w.self, nb, x, y) = ToNeighbour(w.self, nb, x, y)
         /\ NeighbourCovers(w.self, w.neighbours, i, x, y) => Beyond(w.self, nb, x, y)
<1> DEFINE g == w.self
           n == nb.grid
<1>1. g \in GridSpec /\ n \in GridSpec
  BY WorldIs
<1>2. East(g) \in Int /\ North(g) \in Int /\ West(n) \in Int /\ South(n) \in Int
  BY <1>1, Edges
<1>3. CASE nb.dir = "east"
  <2>1. ToNeighbour(g, nb, x, y) = <<x - East(g) + West(n), y>>
    BY <1>3 DEF ToNeighbour
  <2>2. Stitched(g, nb, x, y) = <<West(n) + (x - East(g)), y>>
    BY <1>3 DEF Stitched
  <2>3. Beyond(g, nb, x, y) <=> x >= East(g)
    BY <1>3 DEF Beyond
  <2>4. NeighbourCovers(g, w.neighbours, i, x, y) => West(n) <= x - East(g) + West(n)
    BY <2>1 DEF NeighbourCovers, Covers
  <2>5. x - East(g) + West(n) = West(n) + (x - East(g))
    BY <1>2
  <2> QED
    BY <1>2, <2>1, <2>2, <2>3, <2>4, <2>5
<1>4. CASE nb.dir = "north"
  <2>1. ToNeighbour(g, nb, x, y) = <<x, y - North(g) + South(n)>>
    BY <1>4 DEF ToNeighbour
  <2>2. Stitched(g, nb, x, y) = <<x, South(n) + (y - North(g))>>
    BY <1>4 DEF Stitched
  <2>3. Beyond(g, nb, x, y) <=> y >= North(g)
    BY <1>4 DEF Beyond
  <2>4. NeighbourCovers(g, w.neighbours, i, x, y) => South(n) <= y - North(g) + South(n)
    BY <2>1 DEF NeighbourCovers, Covers
  <2>5. y - North(g) + South(n) = South(n) + (y - North(g))
    BY <1>2
  <2> QED
    BY <1>2, <2>1, <2>2, <2>3, <2>4, <2>5
<1> QED
  BY <1>3, <1>4 DEF EastAndNorth

\* A player who leaves our grid by its east or north edge comes in at the other
\* side, in the stitched coordinates, wherever the neighbour has its own origin
\* and whatever the size of its cells.  (Off the west and south edges the code
\* does not do so.)
THEOREM Stitches ==
  ASSUME EastAndNorth
  PROVE  Spec => []StitchedAtEdge
<1>1. Kinds => StitchedAtEdge
  <2> DEFINE Leads(p, i) ==
        LET nb == world.neighbours[i]
            l  == Stitched(world.self, nb, pos[p][1], pos[p][2])
        IN  Beyond(world.self, nb, pos[p][1], pos[p][2]) /\ Covers(nb.grid, l[1], l[2])
  <2> SUFFICES ASSUME Kinds, NEW p \in Players, NEW x, x = pos[p][1], NEW y, y = pos[p][2],
                      NEW r, r = Resolve(p), ~r.isSelf
               PROVE  /\ r.world = 0 => \A i \in 1..Len(world.neighbours) : ~Leads(p, i)
                      /\ r.world # 0 => /\ Leads(p, r.world)
                                        /\ <<r.x, r.y>> = Stitched(world.self, world.neighbours[r.world], x, y)
    BY DEF StitchedAtEdge
  <2>1. x \in Int /\ y \in Int /\ world \in Worlds
    BY Standing DEF Kinds
  <2>2. \A i \in 1..Len(world.neighbours) :
          Leads(p, i) <=> NeighbourCovers(world.self, world.neighbours, i, x, y)
    <3> SUFFICES ASSUME NEW i \in 1..Len(world.neighbours)
                 PROVE  Leads(p, i) <=> NeighbourCovers(world.self, world.neighbours, i, x, y)
      OBVIOUS
    <3>1. /\ Stitched(world.self, world.neighbours[i], x, y) = ToNeighbour(world.self, world.neighbours[i], x, y)
          /\ NeighbourCovers(world.self, world.neighbours, i, x, y) => Beyond(world.self, world.neighbours[i], x, y)
      BY <2>1, Seams
    <3> QED
      BY <3>1 DEF NeighbourCovers
  <2>3. r = SectorForPos(world.self, world.neighbours, x, y)
    BY DEF Resolve
  <2>4. CASE r = OffWorld /\ \A i \in 1..Len(world.neighbours) : ~NeighbourCovers(world.self, world.neighbours, i, x, y)
    <3>1. r.world = 0
      BY <2>4 DEF OffWorld
    <3> HIDE DEF Leads
    <3> QED
      BY <2>2, <2>4, <3>1
  <2>5. ASSUME NEW i \in 1..Len(world.neighbours), NeighbourCovers(world.self, world.neighbours, i, x, y),
               r = Foreign(world, i, ToNeighbour(world.self, world.neighbours[i], x, y))
        PROVE  /\ r.world # 0 /\ Leads(p, r.world)
               /\ <<r.x, r.y>> = Stitched(world.self, world.neighbours[r.world], x, y)
    <3>1. PICK lx, ly \in Int : ToNeighbour(world.self, world.neighbours[i], x, y) = <<lx, ly>>
      BY <2>1, Translated, ZenonT(60)
    <3>2. r.world = i /\ i # 0 /\ r.x = lx /\ r.y = ly
      BY <2>5, <3>1 DEF Foreign
    <3>3. Stitched(world.self, world.neighbours[i], x, y) = <<lx, ly>>
      BY <2>1, <3>1, Seams
    <3>4. Leads(p, i)
      BY <2>2, <2>5
    <3> HIDE DEF Leads
    <3> QED
      BY <3>2, <3>3, <3>4
  <2>6. \/ /\ r = OffWorld
           /\ \A i \in 1..Len(world.neighbours) : ~NeighbourCovers(world.self, world.neighbours, i, x, y)
        \/ \E i \in 1..Len(world.neighbours) :
             /\ NeighbourCovers(world.self, world.neighbours, i, x, y)
             /\ r = Foreign(world, i, ToNeighbour(world.self, world.neighbours[i], x, y))
    BY <2>1, <2>3, Answers
  <2> HIDE DEF Leads
  <2> QED
    BY <2>4, <2>5, <2>6
<1> QED
  BY <1>1, KindsHold, PTL

-----------------------------------------------------------------------------
(* The latch.                                                               *)

\* What is handed over to a neighbour.
LEMMA Resolves ==
  ASSUME Kinds, NEW p \in Players, NEW r, r = Resolve(p), ~r.isSelf
  PROVE  r.sector \in Nat /\ r.x \in Int /\ r.y \in Int /\ r.world \in Nat
<1>1. pos[p][1] \in Int /\ pos[p][2] \in Int /\ world \in Worlds
  BY Standing DEF Kinds
<1>2. PICK x, y \in Int : x = pos[p][1] /\ y = pos[p][2]
  BY <1>1
<1>3. r = SectorForPos(world.self, world.neighbours, x, y)
  BY <1>2 DEF Resolve
<1>4. CASE r = OffWorld
  BY <1>4 DEF OffWorld
<1>5. ASSUME NEW i \in 1..Len(world.neighbours), NeighbourCovers(world.self, world.neighbours, i, x, y),
             r = Foreign(world, i, ToNeighbour(world.self, world.neighbours[i], x, y))
      PROVE  r.sector \in Nat /\ r.x \in Int /\ r.y \in Int /\ r.world \in Nat
  <2>1. PICK lx, ly \in Int : ToNeighbour(world.self, world.neighbours[i], x, y) = <<lx, ly>>
    BY <1>1, Translated, ZenonT(60)
  <2>2. PICK g \in GridSpec : g = world.neighbours[i].grid
    BY <1>1, WorldIs
  <2>3. Covers(g, lx, ly)
    BY <1>5, <2>1, <2>2 DEF NeighbourCovers
  <2>4. SectorOf(g, lx, ly) \in SectorIds(g) /\ SectorIds(g) \subseteq Nat
    BY <2>3, SectorOfGrid, Edges, SMTT(40) DEF SectorIds
  <2>5. r.sector = SectorOf(g, lx, ly) /\ r.x = lx /\ r.y = ly /\ r.world = i
    BY <1>5, <2>1, <2>2 DEF Foreign
  <2> QED
    BY <2>4, <2>5
<1>6. \/ r.isSelf = TRUE
      \/ r = OffWorld
      \/ \E i \in 1..Len(world.neighbours) :
           /\ NeighbourCovers(world.self, world.neighbours, i, x, y)
           /\ r = Foreign(world, i, ToNeighbour(world.self, world.neighbours[i], x, y))
  BY <1>1, <1>3, Answers
<1> QED
  BY <1>4, <1>5, <1>6

\* Of a player whose own tick was the last to move the latch, the latch holds where
\* he was found.
LatchInv ==
  /\ DOMAIN stay = Players
  /\ \A p \in Players \ overruled : lastFired = stay[p]

LEMMA FoundHolds ==
  ASSUME LatchInv, NEW p \in Players, p = lastPlayer, NEW s, Found(s), lastFired' = s
  PROVE  LatchInv'
<1>1. /\ stay' = [stay EXCEPT ![p] = s]
      /\ overruled' = (IF lastFired' = lastFired THEN overruled ELSE Players) \ {p}
  BY DEF Found
<1>2. DOMAIN stay' = Players /\ stay'[p] = s
  BY <1>1 DEF LatchInv
<1>3. ASSUME NEW q \in Players \ overruled' PROVE lastFired' = stay'[q]
  <2>1. CASE q = p
    BY <1>2, <2>1
  <2>2. CASE q # p
    <3>1. lastFired' = lastFired /\ q \notin overruled /\ stay'[q] = stay[q]
      BY <1>1, <2>2 DEF LatchInv
    <3> QED
      BY <3>1 DEF LatchInv
  <2> QED
    BY <2>1, <2>2
<1> QED
  BY <1>2, <1>3 DEF LatchInv

LEMMA LatchStep == Kinds /\ LatchInv /\ [Next]_vars => LatchInv'
<1> SUFFICES ASSUME Kinds, LatchInv, [Next]_vars PROVE LatchInv'
  OBVIOUS
<1>1. ASSUME UNCHANGED <<lastFired, stay, overruled>> PROVE LatchInv'
  BY <1>1 DEF LatchInv
<1>2. CASE TickOffWorld
  BY <1>1, <1>2 DEF TickOffWorld, seen
<1>3. CASE TickSelf
  <2>1. lastPlayer \in Players /\ Found(0) /\ lastFired' = 0
    BY <1>3 DEF TickSelf, Tick, Kinds, Unlatched
  <2> QED
    BY <2>1, FoundHolds
<1>4. CASE TickLatched
  <2>1. lastPlayer \in Players /\ Found(resolved'.sector) /\ lastFired' = resolved'.sector
    BY <1>4 DEF TickLatched, Tick, Kinds
  <2> QED
    BY <2>1, FoundHolds
<1>5. ASSUME NEW queued \in BOOLEAN, TickFire(queued) PROVE LatchInv'
  <2>1. PICK s : lastPlayer \in Players /\ Found(s) /\ lastFired' = s
    BY <1>5 DEF TickFire, Tick, Kinds, Latched
  <2> QED
    BY <2>1, FoundHolds
<1>6. CASE UNCHANGED vars
  BY <1>1, <1>6 DEF vars
<1>7. ASSUME NEW p \in Players, SetControlObject(p) \/ Walk(p) PROVE LatchInv'
  BY <1>1, <1>7 DEF SetControlObject, Walk, latch, seen
<1>8. ASSUME IntervalPasses \/ TickNoPlayer PROVE LatchInv'
  BY <1>1, <1>8 DEF IntervalPasses, TickNoPlayer, latch, seen
<1> QED
  BY <1>2, <1>3, <1>4, <1>5, <1>6, <1>7, <1>8 DEF Next, OnTick

\* A tick that finds a player in a neighbour's sector hands him over if his last one
\* found him elsewhere, and not if it found him there, unless another player's tick
\* has moved the latch between the two: of any worlds, any players, queued or refused.
THEOREM FiresOnce == Spec => FiresOncePerEntry
<1> DEFINE Once == Tick /\ lastPlayer \notin overruled /\ resolved'.sector # 0 /\ ~resolved'.isSelf
                     => IF stay[lastPlayer] = resolved'.sector THEN handoff' = None
                        ELSE handoff' # None /\ handoff'.sector = resolved'.sector
<1>1. Init => LatchInv
  BY DEF Init, LatchInv
<1>2. Kinds /\ LatchInv /\ [Next]_vars => LatchInv'
  BY LatchStep
<1>3. Kinds /\ LatchInv /\ [Next]_vars => [Once]_vars
  <2> SUFFICES ASSUME Kinds, LatchInv, Next, Tick, lastPlayer \notin overruled,
                      resolved'.sector # 0, ~resolved'.isSelf
               PROVE  IF stay[lastPlayer] = resolved'.sector THEN handoff' = None
                      ELSE handoff' # None /\ handoff'.sector = resolved'.sector
    OBVIOUS
  <2>1. lastPlayer \in Players /\ lastFired = stay[lastPlayer]
    BY DEF Tick, Kinds, LatchInv
  <2>2. CASE TickLatched
    BY <2>1, <2>2 DEF TickLatched, NoCalls
  <2>3. ASSUME NEW queued \in BOOLEAN, TickFire(queued)
        PROVE  IF stay[lastPlayer] = resolved'.sector THEN handoff' = None
               ELSE handoff' # None /\ handoff'.sector = resolved'.sector
    <3>1. PICK r : /\ r = Resolve(lastPlayer) /\ resolved' = [sector |-> r.sector, isSelf |-> r.isSelf]
                   /\ ~r.isSelf /\ r.sector # lastFired
                   /\ handoff' = [sector |-> r.sector, x |-> r.x, y |-> r.y, world |-> r.world]
      BY <2>3 DEF TickFire, Tick
    <3>2. r.sector \in Nat /\ r.x \in Int /\ r.y \in Int /\ r.world \in Nat
      BY <2>1, <3>1, Resolves
    <3>3. handoff' \in [sector : Nat, x : Int, y : Int, world : Nat]
      BY <3>1, <3>2
    <3>4. handoff' # None
      BY <3>3, SectorEdgeAssumption
    <3> QED
      BY <2>1, <3>1, <3>4
  <2>4. ~TickNoPlayer /\ ~TickOffWorld /\ ~TickSelf
    BY DEF Tick, TickNoPlayer, TickOffWorld, TickSelf
  <2>5. OnTick
    <3>1. \A p \in Players : ~SetControlObject(p) /\ ~Walk(p)
      BY DEF Tick, SetControlObject, Walk
    <3>2. ~IntervalPasses
      BY DEF Tick, IntervalPasses
    <3> QED
      BY <3>1, <3>2 DEF Next
  <2> QED
    BY <2>2, <2>3, <2>4, <2>5 DEF OnTick
<1>4. Spec => []LatchInv
  BY <1>1, <1>2, KindsHold, PTL DEF Spec
<1>5. Spec => [][Once]_vars
  <2> HIDE DEF Once
  <2> QED
    BY <1>3, <1>4, KindsHold, PTL DEF Spec
<1> QED
  BY <1>5 DEF FiresOncePerEntry
-----------------------------------------------------------------------------
(* The distances.                                                           *)

KnobsKnown == DOMAIN knob = Knobs

\* A command moves one knob only, and what the engine consults apart from the
\* knobs stays.
LEMMA OneKnob ==
  ASSUME KnobsKnown, NEW k \in Knobs, NEW v \in Distances, SetKnob(k, v), NEW j \in Knobs \ {k},
         j \notin Sites \ posts.sites
  PROVE  Consulted(j)' = Consulted(j)
<1>1. /\ UNCHANGED <<hooked, posts>> /\ knob'[j] = knob[j]
      /\ k # "DefaultRadius" => RadiusGetter' = RadiusGetter
  BY DEF SetKnob, SameWorld, KnobsKnown, RadiusGetter, Knobs, Sites
<1>2. CASE j = "DefaultRadius"
  BY <1>1, <1>2 DEF Consulted
<1>3. CASE j = "Monument"
  BY <1>1, <1>3 DEF Consulted, Sites
<1>4. CASE j = "OutpostOutpost"
  BY <1>1, <1>4 DEF Consulted, Sites
<1>5. CASE j \in Sites
  <2>1. j \in posts.sites /\ j \notin {"DefaultRadius", "Monument", "OutpostOutpost"}
    BY <1>5 DEF Sites
  <2> QED
    BY <1>1, <1>5, <2>1 DEF Consulted
<1> QED
  BY <1>2, <1>3, <1>4, <1>5 DEF Knobs

\* KnobsIndependent: a command that sets a distance (Lifx::setOutpostRadius and
\* its kin in lifx_outpost.cpp) changes what no other placement check compares
\* with, nor an outpost that stands.
THEOREM Independent == HooksSpec => KnobsIndependent
<1>1. HooksInit => KnobsKnown
  BY DEF HooksInit, Baseline, KnobsKnown
<1>2. ASSUME [HooksNext]_hookVars
      PROVE  UNCHANGED knob \/ \E k \in Knobs, v \in Distances : SetKnob(k, v)
  <2>1. CASE DllAttach \/ ConsoleInit \/ DllDetach \/ BuildOutpost
    BY <2>1 DEF DllAttach, ConsoleInit, DllDetach, BuildOutpost
  <2>2. CASE \E t \in EngineThreads, e \in NetEntries : EngineCalls(t, e)
    BY <2>2 DEF EngineCalls, SameHooks
  <2>3. CASE \E t \in EngineThreads : HookStep(t)
    BY <2>3 DEF HookStep, EnterHook, OpenLogOnce, TakeLog, WriteHeader, DumpRegion, CallOriginal, SameHooks
  <2>4. CASE \E i \in DOMAIN built, v \in Distances : SetOutpostRadius(i, v)
    BY <2>4 DEF SetOutpostRadius
  <2>5. CASE UNCHANGED hookVars
    BY <2>5 DEF hookVars
  <2> QED
    BY <1>2, <2>1, <2>2, <2>3, <2>4, <2>5 DEF HooksNext
<1>3. KnobsKnown /\ [HooksNext]_hookVars => KnobsKnown'
  BY <1>2 DEF KnobsKnown, SetKnob
<1>4. KnobsKnown /\ [HooksNext]_hookVars =>
        [\A k \in Knobs : knob'[k] # knob[k] =>
           /\ \A j \in Knobs \ {k} : j \in Sites \ posts.sites \/ Consulted(j)' = Consulted(j)
           /\ built' = built]_hookVars
  <2> SUFFICES ASSUME KnobsKnown, [HooksNext]_hookVars, NEW k \in Knobs, knob'[k] # knob[k]
               PROVE  /\ \A j \in Knobs \ {k} : j \in Sites \ posts.sites \/ Consulted(j)' = Consulted(j)
                      /\ built' = built
    OBVIOUS
  <2>1. PICK v \in Distances : SetKnob(k, v)
    BY <1>2 DEF SetKnob, KnobsKnown
  <2> QED
    BY <2>1, OneKnob DEF SetKnob
<1> QED
  BY <1>1, <1>3, <1>4, PTL DEF HooksSpec, KnobsIndependent

-----------------------------------------------------------------------------
(* The log.                                                                 *)

Steps == {"idle", "hook", "open", "header", "region", "writeHeader", "writeRegion", "original"}

\* The log is with the thread that writes to it.
LogWithWriter ==
  /\ thread \in [EngineThreads -> [call : Entries \cup {"none"}, at : Steps]]
  /\ \A t \in EngineThreads : thread[t].at \in {"writeHeader", "writeRegion"} <=> logMutex = t

\* A thread that waits for g_logMu, which is not recursive, does not hold it.
NoSelfWait ==
  \A t \in EngineThreads : thread[t].at \in {"open", "header", "region"} => logMutex # t

LEMMA Calls ==
  ASSUME LogWithWriter, NEW t \in EngineThreads, NEW to \in Steps, Moves(t, to)
  PROVE  /\ thread' \in [EngineThreads -> [call : Entries \cup {"none"}, at : Steps]]
         /\ thread'[t].at = to
         /\ \A u \in EngineThreads \ {t} : thread'[u] = thread[u]
BY DEF LogWithWriter, Moves

\* The calls of the dumper keep to the log, with any number of threads, so that
\* a send can only wait for another thread (hook_netclassrep_dumper.cpp).
THEOREM LogNotRecursive ==
  ASSUME NoThread \notin EngineThreads
  PROVE  HooksSpec => []NoSelfWait
<1>1. HooksInit => LogWithWriter
  BY DEF HooksInit, LogWithWriter, Idle, Steps
<1>2. LogWithWriter /\ [HooksNext]_hookVars => LogWithWriter'
  <2> SUFFICES ASSUME LogWithWriter, [HooksNext]_hookVars PROVE LogWithWriter'
    OBVIOUS
  <2>1. CASE UNCHANGED <<thread, logMutex>>
    BY <2>1 DEF LogWithWriter
  <2>2. ASSUME NEW t \in EngineThreads, NEW e \in NetEntries, EngineCalls(t, e) PROVE LogWithWriter'
    BY <2>2 DEF EngineCalls, LogWithWriter, SameLog, Steps, Idle, Entries
  <2>3. ASSUME NEW t \in EngineThreads, EnterHook(t) PROVE LogWithWriter'
    <3>1. PICK to \in {"open", "original"} : Moves(t, to)
      BY <2>3 DEF EnterHook
    <3> QED
      BY <2>3, <3>1, Calls DEF EnterHook, LogWithWriter, Steps
  <2>4. ASSUME NEW t \in EngineThreads, OpenLogOnce(t) PROVE LogWithWriter'
    <3>1. PICK to \in {"header", "region", "original"} : Moves(t, to)
      BY <2>4 DEF OpenLogOnce
    <3> QED
      BY <2>4, <3>1, Calls DEF OpenLogOnce, LogWithWriter, Steps
  <2>5. ASSUME NEW t \in EngineThreads, TakeLog(t) PROVE LogWithWriter'
    <3>1. PICK to \in {"writeHeader", "writeRegion"} : Moves(t, to)
      BY <2>5 DEF TakeLog
    <3> QED
      BY <2>5, <3>1, Calls DEF TakeLog, LogWithWriter, Steps
  <2>6. ASSUME NEW t \in EngineThreads, WriteHeader(t) \/ DumpRegion(t) PROVE LogWithWriter'
    <3>1. PICK to \in {"region", "original"} : Moves(t, to)
      BY <2>6 DEF WriteHeader, DumpRegion
    <3>2. thread[t].at \in {"writeHeader", "writeRegion"} /\ logMutex' = NoThread
      BY <2>6 DEF WriteHeader, DumpRegion
    <3> QED
      BY <3>1, <3>2, Calls DEF LogWithWriter, Steps
  <2>7. ASSUME NEW t \in EngineThreads, CallOriginal(t) PROVE LogWithWriter'
    <3>1. CASE Moves(t, "hook")
      BY <2>7, <3>1, Calls DEF CallOriginal, LogWithWriter, SameLog, Steps
    <3>2. CASE Return(t)
      BY <2>7, <3>2 DEF CallOriginal, LogWithWriter, SameLog, Return, Idle, Steps
    <3> QED
      BY <2>7, <3>1, <3>2 DEF CallOriginal
  <2>8. ASSUME \/ DllAttach \/ ConsoleInit \/ DllDetach \/ BuildOutpost
               \/ \E k \in Knobs, v \in Distances : SetKnob(k, v)
               \/ \E i \in DOMAIN built, v \in Distances : SetOutpostRadius(i, v)
               \/ UNCHANGED hookVars
        PROVE  UNCHANGED <<thread, logMutex>>
    BY <2>8 DEF DllAttach, ConsoleInit, DllDetach, BuildOutpost, SetKnob, SetOutpostRadius, SameWorld, hookVars
  <2> QED
    BY <2>1, <2>2, <2>3, <2>4, <2>5, <2>6, <2>7, <2>8 DEF HooksNext, HookStep
<1>3. LogWithWriter => NoSelfWait
  BY DEF LogWithWriter, NoSelfWait
<1> QED
  BY <1>1, <1>2, <1>3, PTL DEF HooksSpec
=============================================================================
