---------------------------- MODULE ServerHooks ----------------------------
(***************************************************************************)
(* The life of the plugin inside the server (dllmain.cpp, cm_server.cpp,     *)
(* hooks_engine.cpp): which functions of the engine are diverted, by which   *)
(* Detours transaction; what a diverted ServerUUIDEvent::send and            *)
(* NetClassRep::add go through (hook_netclassrep_dumper.cpp); and the        *)
(* distances that the outpost commands set (lifx_outpost.cpp, hooks/outpost).*)
(***************************************************************************)
EXTENDS Integers, Sequences

CONSTANTS
  HookConfs,  \* [file, dump, autoPost, drops]: the configuration, if there is a file
  Builds,     \* of the engine: [unhookable, unfit, sites, slots]
  EngineThreads,
  Distances,  \* that a command may be given, 0 among them
  BuiltMax,   \* bound: outposts built
  DumpedAdds, \* registrations whose class is dumped
  NoThread

VARIABLES boot, conf, build, hooked, posts, knob, built, thread, logMutex, sinkLogged, liveReps
hookVars == <<boot, conf, build, hooked, posts, knob, built, thread, logMutex, sinkLogged, liveReps>>

CoreHooks ==
  {"InternalConsolePrintf", "Con_Init", "StringTableInsert", "FS_Open", "FS_Read",
   "FS_GetStreamSize", "FS_GetPosition", "FS_SetPosition", "FS_Dtor",
   "AnimatedNpc_SetAnimation", "Animal_CreateCorpse", "Animal_CreateAnimal", "Container_TryInit"}
DetachedHooks ==
  {"Ai_LoadBehaviorXml", "ObjEffects_BroadcastDelta", "Effect_Parse",
   "OutpostOutpostMinDistanceGetter", "MonumentMinDistanceGetter", "Outpost_DefaultRadiusGetter",
   "GC_SetControlObject", "Hit_ApplyDamage", "CharInfo_SendChanges", "Wounds_DealDamage",
   "Char_CalcHitDamage", "VitalParams_ProcessTick", "WorkingWindmill_RecalcTick",
   "WorkingTrap_RecalcTick", "WorkingGreenhouse_RecalcTick", "WorkingFire_RecalcTick",
   "BrewingTankFurnace_RecalcTick", "WorkingFurnace_RecalcTick",
   "BrewingTankFurnace_LookupProcDesc", "Furnace_LookupProcDesc"}
ServerHookSet == DetachedHooks \cup {"OnePunchMan", "Player_CheckSteps", "Lands_IsActiveStartingZone"}
DropEntries   == {"FindRecipeForMaterial", "ComputeDropChance", "ItemTypeLookup", "AddTunnelMaterials"}
NetEntries    == {"NetClassRep_Add", "ServerUUIDEvent_Send"}
Entries       == CoreHooks \cup ServerHookSet \cup DropEntries \cup NetEntries

Sites == {"OutpostPersonal", "MonumentPersonal"}  \* calls of the radius getter
Slots == {"NpcDecorative", "Animal"}              \* of packUpdate in a vtable
Knobs == {"DefaultRadius", "Monument", "OutpostOutpost"} \cup Sites
Baseline == [k \in Knobs |-> IF k = "Monument" THEN 150 ELSE IF k = "OutpostOutpost" THEN 300 ELSE 20]

NoTx    == [open |-> FALSE, attach |-> [e \in Entries |-> 0], detach |-> {}, failed |-> FALSE]
Idle    == [call |-> "none", at |-> "idle"]
NoConf  == [file |-> FALSE, dump |-> FALSE, autoPost |-> FALSE, drops |-> {}]

HooksInit ==
  /\ boot = "cold" /\ conf \in HookConfs /\ build \in Builds
  /\ hooked = [e \in Entries |-> 0]
  /\ posts = [sites |-> {}, slots |-> {}, tree |-> FALSE, attached |-> {}]
  /\ knob = Baseline /\ built = <<>>
  /\ thread = [t \in EngineThreads |-> Idle]
  /\ logMutex = NoThread /\ sinkLogged = FALSE /\ liveReps = 0

-----------------------------------------------------------------------------
\* Detours, as cm_aux.h and cm_server.cpp rely on it.  One transaction at a time:
\* to begin another changes nothing, and outside of one nothing is attached.  What
\* is attached twice in a transaction ends up calling itself.
TxBegin(tx)       == IF tx.open THEN tx ELSE [NoTx EXCEPT !.open = TRUE]
TxAttach(tx, es)  ==
  IF ~tx.open THEN tx
  ELSE [tx EXCEPT !.attach = [e \in Entries |-> IF e \in es THEN @[e] + 1 ELSE @[e]],
                  !.failed = @ \/ es \cap build.unhookable # {}]
TxDetach(tx, es)  ==
  IF ~tx.open THEN tx
  ELSE [tx EXCEPT !.detach = @ \cup es, !.failed = @ \/ \E e \in es : hooked[e] = 0]
TxCommit(tx, h)   ==
  IF ~tx.open \/ tx.failed THEN h
  ELSE [e \in Entries |-> IF e \in tx.detach THEN 0 ELSE h[e] + tx.attach[e]]

\* DllMain, on attach: the core hooks, if Server::Init finds its file.
DllAttach ==
  /\ boot = "cold"
  /\ boot' = IF conf.file THEN "loaded" ELSE "inert"
  /\ hooked' = TxCommit(TxAttach(TxBegin(NoTx), IF conf.file THEN CoreHooks ELSE {}), hooked)
  /\ UNCHANGED <<conf, build, posts, knob, built, thread, logMutex, sinkLogged, liveReps>>

\* The dumper's hooks; the trigger of the auto-post is one of them.
SlipNetHooks ==
  [dump |-> IF conf.dump THEN NetEntries ELSE {},
   post |-> IF conf.autoPost THEN {"ServerUUIDEvent_Send"} ELSE {}]
NetHooks ==
  [dump |-> IF conf.dump THEN NetEntries ELSE {},
   post |-> IF conf.autoPost /\ ~conf.dump THEN {"ServerUUIDEvent_Send"} ELSE {}]

\* A drop hook whose code is not the expected one is left out.  One that follows a
\* failed attach is not attached either, and does not note that it is.
DropHooksOf(tx) ==
  IF tx.failed THEN {} ELSE conf.drops \ (build.unfit \cup build.unhookable)

\* The part of Server::AttachHooks that is a transaction of its own, since
\* ConsoleInit is outside the one of DllMain.
ServerTransaction ==
  LET net == NetHooks IN
  TxAttach(TxAttach(TxAttach(TxAttach(TxBegin(NoTx), ServerHookSet), net.dump), net.post),
           conf.drops \ build.unfit)

\* The patches are made whether the commit succeeds or not.
TreePatched == "tree" \in conf.drops \ build.unfit
Patches(tx) ==
  [sites |-> build.sites, slots |-> build.slots, tree |-> TreePatched, attached |-> DropHooksOf(tx)]

Start ==
  /\ hooked' = TxCommit(ServerTransaction, hooked)
  /\ posts'  = Patches(ServerTransaction)

\* Con_Init of the engine; the hook of it starts the server and adds the commands.
ConsoleInit ==
  /\ boot = "loaded"
  /\ IF hooked["Con_Init"] > 0 THEN boot' = "serving" /\ Start
     ELSE boot' = "inert" /\ UNCHANGED <<hooked, posts>>
  /\ UNCHANGED <<conf, build, knob, built, thread, logMutex, sinkLogged, liveReps>>

\* Server::DetachHooks: the transaction it begins is the one that DllMain began,
\* and it commits that.
ServerDetached == TxCommit(TxDetach(TxBegin(TxBegin(NoTx)), DetachedHooks), hooked)

\* Server::Destroy: no transaction is left for the core hooks.
Destroyed == TxCommit(TxDetach(NoTx, CoreHooks), ServerDetached)

\* DllMain, on detach; of the two slots only the one of the decorative NPCs is restored.
DllDetach ==
  /\ boot \notin {"cold", "unloaded"}
  /\ \A t \in EngineThreads : thread[t] = Idle
  /\ boot' = "unloaded"
  /\ hooked' = Destroyed
  /\ posts' = [posts EXCEPT !.slots = @ \ {"NpcDecorative"}]
  /\ UNCHANGED <<conf, build, knob, built, thread, logMutex, sinkLogged, liveReps>>

-----------------------------------------------------------------------------
\* The engine calls one of the two functions the dumper diverts.
Moves(t, to)   == thread' = [thread EXCEPT ![t].at = to]
Return(t)      == thread' = [thread EXCEPT ![t] = Idle]
SameHooks      == UNCHANGED <<boot, conf, build, hooked, posts, knob, built>>
SameLog        == UNCHANGED <<logMutex, sinkLogged, liveReps>>

EngineCalls(t, e) ==
  /\ boot = "serving" /\ thread[t] = Idle /\ hooked[e] > 0
  /\ thread' = [thread EXCEPT ![t] = [call |-> e, at |-> "hook"]]
  /\ SameHooks /\ SameLog

\* Only the first send has anything to write.
EnterHook(t) ==
  /\ thread[t].at = "hook"
  /\ LET first == thread[t].call = "ServerUUIDEvent_Send" /\ ~sinkLogged IN
     /\ sinkLogged' = (sinkLogged \/ first)
     /\ Moves(t, IF first \/ thread[t].call = "NetClassRep_Add" THEN "open" ELSE "original")
  /\ UNCHANGED <<logMutex, liveReps>> /\ SameHooks

\* OpenLogOnce takes the log and lets it go; the first registrations are dumped.
OpenLogOnce(t) ==
  /\ thread[t].at = "open" /\ logMutex = NoThread
  /\ IF thread[t].call = "ServerUUIDEvent_Send" THEN Moves(t, "header") /\ UNCHANGED liveReps
     ELSE /\ Moves(t, IF liveReps < DumpedAdds THEN "region" ELSE "original")
          /\ liveReps' = (IF liveReps < DumpedAdds THEN liveReps + 1 ELSE liveReps)
  /\ UNCHANGED <<logMutex, sinkLogged>> /\ SameHooks

\* g_logMu is not recursive, and DumpRegion takes it itself.
TakeLog(t) ==
  /\ thread[t].at \in {"header", "region"} /\ logMutex = NoThread
  /\ logMutex' = t
  /\ Moves(t, IF thread[t].at = "header" THEN "writeHeader" ELSE "writeRegion")
  /\ UNCHANGED <<sinkLogged, liveReps>> /\ SameHooks

SlipWriteHeader(t) ==
  /\ thread[t].at = "writeHeader"
  /\ UNCHANGED logMutex
  /\ Moves(t, "region")
  /\ UNCHANGED <<sinkLogged, liveReps>> /\ SameHooks
WriteHeader(t) ==
  /\ thread[t].at = "writeHeader"
  /\ logMutex' = NoThread
  /\ \E hasSink \in BOOLEAN : Moves(t, IF hasSink THEN "region" ELSE "original")
  /\ UNCHANGED <<sinkLogged, liveReps>> /\ SameHooks

DumpRegion(t) ==
  /\ thread[t].at = "writeRegion"
  /\ logMutex' = NoThread
  /\ Moves(t, "original")
  /\ UNCHANGED <<sinkLogged, liveReps>> /\ SameHooks

\* The trampoline of a function that was attached twice leads to the hook again.
CallOriginal(t) ==
  /\ thread[t].at = "original"
  /\ IF hooked[thread[t].call] > 1 THEN Moves(t, "hook") ELSE Return(t)
  /\ SameLog /\ SameHooks

HookStep(t) ==
  EnterHook(t) \/ OpenLogOnce(t) \/ TakeLog(t) \/ WriteHeader(t) \/ DumpRegion(t) \/ CallOriginal(t)

-----------------------------------------------------------------------------
\* What a placement check of the engine compares with.
RadiusGetter == IF hooked["Outpost_DefaultRadiusGetter"] > 0 THEN knob["DefaultRadius"] ELSE 20
SlipConsulted(k) ==
  CASE k = "DefaultRadius"  -> RadiusGetter
    [] k = "Monument"       -> IF hooked["MonumentMinDistanceGetter"] > 0 THEN knob[k] ELSE 150
    [] k = "OutpostOutpost" -> IF hooked["OutpostOutpostMinDistanceGetter"] > 0 THEN knob[k] ELSE 300
    [] k \in Sites          -> IF k \in posts.sites THEN knob["OutpostPersonal"] ELSE RadiusGetter
Consulted(k) ==
  CASE k = "DefaultRadius"  -> RadiusGetter
    [] k = "Monument"       -> IF hooked["MonumentMinDistanceGetter"] > 0 THEN knob[k] ELSE 150
    [] k = "OutpostOutpost" -> IF hooked["OutpostOutpostMinDistanceGetter"] > 0 THEN knob[k] ELSE 300
    [] k \in Sites          -> IF k \in posts.sites THEN knob[k] ELSE RadiusGetter

SameWorld == UNCHANGED <<boot, conf, build, hooked, posts, thread, logMutex, sinkLogged, liveReps>>

\* A zero distance is refused.
SetKnob(k, v) ==
  /\ boot = "serving" /\ v > 0
  /\ knob' = [knob EXCEPT ![k] = v]
  /\ UNCHANGED built /\ SameWorld

\* The engine builds an outpost with the radius the getter returns.
BuildOutpost ==
  /\ boot = "serving" /\ Len(built) < BuiltMax
  /\ built' = Append(built, Consulted("DefaultRadius"))
  /\ UNCHANGED knob /\ SameWorld

\* changeGuildLandRadius of one land.
SetOutpostRadius(i, v) ==
  /\ boot = "serving" /\ v > 0
  /\ built' = [built EXCEPT ![i] = v]
  /\ UNCHANGED knob /\ SameWorld

HooksNext ==
  \/ DllAttach \/ ConsoleInit \/ DllDetach
  \/ \E t \in EngineThreads, e \in NetEntries : EngineCalls(t, e)
  \/ \E t \in EngineThreads : HookStep(t)
  \/ \E k \in Knobs, v \in Distances : SetKnob(k, v)
  \/ BuildOutpost
  \/ \E i \in DOMAIN built, v \in Distances : SetOutpostRadius(i, v)

HooksSpec ==
  HooksInit /\ [][HooksNext]_hookVars /\ \A t \in EngineThreads : WF_hookVars(HookStep(t))
-----------------------------------------------------------------------------
\* A call of a diverted function comes back, however the configuration combines
\* the dumper and the auto-post, and whichever thread holds the log.
SendReturns == \A t \in EngineThreads : thread[t] # Idle ~> thread[t] = Idle

\* None of the knobs moves another: a command that sets one changes what no other
\* check compares with, nor an outpost that stands.  Where a call site could not be
\* patched, its check follows the default radius.
KnobsIndependent ==
  [][\A k \in Knobs : knob'[k] # knob[k] =>
       /\ \A j \in Knobs \ {k} : j \in Sites \ posts.sites \/ Consulted(j)' = Consulted(j)
       /\ built' = built]_hookVars
=============================================================================
