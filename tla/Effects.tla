------------------------------ MODULE Effects ------------------------------
(***************************************************************************)
(* The timed effects of players: the broadcaster of effect deltas, hooked    *)
(* to give Resurrected another duration (hook_broadcast_effects.cpp,         *)
(* hook_assign_effect.cpp), the commands that set that duration              *)
(* (api/lifx_timers.cpp) and those that edit a row of a player's table       *)
(* (api/lifx_effects.cpp).  Times are words of Word values.                  *)
(***************************************************************************)
EXTENDS Integers

CONSTANTS
  Patients,    \* char ids of players
  EffectIds,
  Resurrected, \* kResurrectedEffectId
  Word,        \* 2^32 in the code: times wrap
  ApplyTimes,  \* the engine's clock when it applies an effect
  Windows,     \* durations the engine or an administrator gives
  Callbacks    \* script functions, each from the engine's duration to its answer

ASSUME EffectsAssumption ==
  /\ Resurrected \in EffectIds /\ Word \in Nat \ {0}
  /\ ApplyTimes \subseteq 0..Word - 1 /\ Windows \subseteq 1..Word - 1
  /\ ApplyTimes # {} /\ Windows # {}
  /\ \A fn \in Callbacks : fn \in [DOMAIN fn -> 0..Word - 1]

VARIABLES
  row,        \* each player's table, as the server's ticks read it
  client,     \* the same rows as the last broadcast gave them to the clients
  perPlayer,  \* g_perPlayer, zero for no entry
  everyone,   \* g_resurrectionDurationMs
  callback    \* g_callbackFn, NoCallback for the empty name

effectsVars == <<row, client, perPlayer, everyone, callback>>

NoEffect   == [expires |-> 0, applied |-> 0, magnitude |-> 0]
NoCallback == [d \in {} |-> 0]

\* g_resurrectionDurationMs comes from lifxpluss.xml before the hook attaches.
EffectsInit ==
  /\ row       = [p \in Patients |-> [e \in EffectIds |-> NoEffect]]
  /\ client    = row
  /\ perPlayer = [p \in Patients |-> 0]
  /\ everyone  \in Windows \cup {0}
  /\ callback  = NoCallback

\* The explicit override of a player, zero for none.
Override(p) == IF perPlayer[p] > 0 THEN perPlayer[p] ELSE everyone

\* ResolveResurrectionMs: a positive answer of the script, the player's own
\* override, everyone's, the engine's.
ResolveResurrectionMs(p, window) ==
  IF window \in DOMAIN callback /\ callback[window] > 0 THEN callback[window]
  ELSE IF Override(p) > 0 THEN Override(p) ELSE window

\* The delta as the hook passes it on: removals and rows that look like them
\* are left alone.
Adjusted(p, e, delta) ==
  IF e # Resurrected \/ delta.expires <= delta.applied THEN delta
  ELSE LET window == ResolveResurrectionMs(p, delta.expires - delta.applied)
       IN [delta EXCEPT !.expires = (delta.applied + window) % Word]

SlipNoMirror(p, e, delta) == [row EXCEPT ![p][e] = delta]

\* What the server keeps: the adjustment mirrored into the row.
Mirrored(p, e, delta) == [row EXCEPT ![p][e] = Adjusted(p, e, delta)]

\* BroadcastEffectDelta, and the engine's own calls of the same virtual: the row
\* goes through the hook, then to every client.
BroadcastDelta(p, e, delta) ==
  /\ row'    = Mirrored(p, e, delta)
  /\ client' = [client EXCEPT ![p][e] = Adjusted(p, e, delta)]
  /\ UNCHANGED <<perPlayer, everyone, callback>>

\* External: the engine applies an effect, or takes it off.
EngineApply(p, e, now, window) ==
  BroadcastDelta(p, e, [expires |-> (now + window) % Word, applied |-> now, magnitude |-> 1])
EngineRemove(p, e) == BroadcastDelta(p, e, [row[p][e] EXCEPT !.expires = 0])

\* lifxSetEffectExpiry, lifxExtendEffect, lifxBroadcastEffect, lifxClearEffect:
\* each edits the row and broadcasts it.
SetEffectExpiry(p, e, at)   == BroadcastDelta(p, e, [row[p][e] EXCEPT !.expires = at])
ExtendEffect(p, e, extra)   == BroadcastDelta(p, e, [row[p][e] EXCEPT !.expires = (@ + extra) % Word])
BroadcastEffect(p, e)       == BroadcastDelta(p, e, row[p][e])
ClearEffect(p, e)           == BroadcastDelta(p, e, [row[p][e] EXCEPT !.expires = 0, !.magnitude = 0])

\* LifxTimers::setResurrectionFor, where zero erases, and clearResurrectionFor.
SetResurrectionFor(p, window) ==
  /\ perPlayer' = [perPlayer EXCEPT ![p] = window]
  /\ UNCHANGED <<row, client, everyone, callback>>

\* LifxTimers::resurrection, and onResurrection with a name or without.
Resurrection(window) == everyone' = window /\ UNCHANGED <<row, client, perPlayer, callback>>
OnResurrection(fn)   == callback' = fn /\ UNCHANGED <<row, client, perPlayer, everyone>>

EffectsNext ==
  \/ \E p \in Patients, e \in EffectIds :
       \/ \E now \in ApplyTimes, d \in Windows : EngineApply(p, e, now, d)
       \/ \E t \in ApplyTimes : SetEffectExpiry(p, e, t)
       \/ \E d \in Windows : ExtendEffect(p, e, d)
       \/ EngineRemove(p, e) \/ BroadcastEffect(p, e) \/ ClearEffect(p, e)
  \/ \E p \in Patients, d \in Windows \cup {0} : SetResurrectionFor(p, d)
  \/ \E d \in Windows \cup {0} : Resurrection(d)
  \/ \E fn \in Callbacks \cup {NoCallback} : OnResurrection(fn)

EffectsSpec == EffectsInit /\ [][EffectsNext]_effectsVars
-----------------------------------------------------------------------------
EffectsTypeOK ==
  /\ \A table \in {row, client} : \A p \in Patients, e \in EffectIds :
       table[p][e] \in [expires : 0..Word - 1, applied : 0..Word - 1, magnitude : {0, 1}]
  /\ perPlayer \in [Patients -> Windows \cup {0}] /\ everyone \in Windows \cup {0}
  /\ callback \in Callbacks \cup {NoCallback}

\* What an application of d asks for, by precedence: the script's answer, the
\* player's own override, everyone's, the engine's.
Asked(p, d) == <<IF d \in DOMAIN callback THEN callback[d] ELSE 0, perPlayer[p], everyone, d>>

\* "So server-side ticks see the same shortened window": whatever mixture of
\* engine broadcasts, edits of the row and changes of the overrides came before,
\* the server and the clients agree on every effect; a resurrection that the
\* engine gives lasts as the first who asked wants it (unless its end wraps, which
\* the hook takes for a removal); and no other effect loses what was given to it.
\* Nothing is promised of a resurrection that a script edits: an override undoes
\* lifxSetEffectExpiry and lifxExtendEffect.
ResurrectionAsConfigured ==
  [][/\ client' = row'
     /\ \A p \in Patients, now \in ApplyTimes, d \in Windows :
          EngineApply(p, Resurrected, now, d) /\ now + d < Word =>
            \E i \in 1..4 : /\ Asked(p, d)[i] > 0
                           /\ \A j \in 1..i - 1 : Asked(p, d)[j] = 0
                           /\ row'[p][Resurrected].expires = (now + Asked(p, d)[i]) % Word
     /\ \A p \in Patients, e \in EffectIds \ {Resurrected} :
          LET now == row'[p][e] IN
          now # row[p][e] /\ now.expires > now.applied =>
            \E t \in ApplyTimes, d \in Windows :
              now.expires \in {t, (t + d) % Word, (row[p][e].expires + d) % Word}]_effectsVars
=============================================================================
