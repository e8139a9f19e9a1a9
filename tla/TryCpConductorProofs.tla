------------------------- MODULE TryCpConductorProofs -------------------------
(***************************************************************************)
(* Proofs about the conductor handle, for every set of tasks, ports, apps  *)
(* and handlers.  HandlerOnAttachedPort is not inductive by itself: on()   *)
(* and the continuation of connectAppInterface register at whatever        *)
(* appInterfacePort holds, so the proof needs that this field only ever    *)
(* holds an attached port, and that in turn needs that an attach answered  *)
(* "ok" names an attached port, and that every task's argument has the     *)
(* type its command expects.                                               *)
(***************************************************************************)
EXTENDS TryCpConductor, TLAPS

InterfaceCmds == {"attach_app_interface", "connect_app_interface", "disconnect_app_interface"}

\* The argument of a request has the type its command and method expect.
ArgsTyped ==
    \A t \in Tasks :
        /\ task[t].cmd \in InterfaceCmds => task[t].arg \in Ports
        /\ task[t].op = "attach" => task[t].arg \in Ports /\ task[t].cmd = "attach_app_interface"
        /\ task[t].op = "install" => task[t].arg \in Apps

\* An attach the server confirmed names an attached port.
AttachOk ==
    \A t \in Tasks : task[t].op = "attach" /\ task[t].ans = "ok" => task[t].arg \in attached

\* The handle remembers only a port the conductor attached.
PortAttached == appInterfacePort # NoPort => appInterfacePort \in attached

HInv == TypeOK /\ ArgsTyped /\ AttachOk /\ PortAttached /\ HandlerOnAttachedPort

USE ConductorAssumption DEF None, Ops, Cmds, Answers, InterfaceCmds

\* The record of an idle task has the type of every task.
LEMMA IdleTyped == Idle \in TaskStates
BY DEF Idle, TaskStates

LEMMA HInvInit == Init => HInv
<1> SUFFICES ASSUME Init PROVE HInv OBVIOUS
<1>1. task \in [Tasks -> TaskStates] BY IdleTyped DEF Init
<1>2. TypeOK BY <1>1 DEF Init, TypeOK
<1> QED BY <1>2 DEF Init, HInv, ArgsTyped, AttachOk, PortAttached, HandlerOnAttachedPort, Idle

\* The start actions: only task[t] changes, to a fresh request.
LEMMA HInvSend ==
    ASSUME HInv, NEW t \in Tasks, NEW op \in Ops \ {"idle"}, NEW cmd \in Cmds, NEW arg,
           NEW h \in Handlers \cup {NoHandler},
           arg \in Ports \cup Apps \cup {None},
           cmd \in InterfaceCmds => arg \in Ports,
           op = "attach" => arg \in Ports /\ cmd = "attach_app_interface",
           op = "install" => arg \in Apps,
           Send(t, op, cmd, arg, h),
           UNCHANGED <<appInterfacePort, signalHandlers, remoteVars, ghostVars>>
    PROVE  HInv'
BY DEF HInv, Send, TypeOK, ArgsTyped, AttachOk, PortAttached, HandlerOnAttachedPort,
   TaskStates, Answers, remoteVars, ghostVars

\* Ending a task leaves every conjunct alone.
LEMMA HInvDone ==
    ASSUME HInv, NEW t \in Tasks, Done(t),
           UNCHANGED <<appInterfacePort, signalHandlers, remoteVars>>,
           threw' \subseteq Apps, offCalled' \in BOOLEAN,
           UNCHANGED <<delivered, lost>>
    PROVE  HInv'
BY ConductorAssumption DEF HInv, Done, Idle, TypeOK, ArgsTyped, AttachOk, PortAttached,
   HandlerOnAttachedPort, TaskStates, Ops, Cmds, Answers, None, remoteVars

LEMMA HInvStart ==
    ASSUME HInv, NEW t \in Tasks,
           \/ StartConfigure(t) \/ StartStartUp(t) \/ StartShutDown(t) \/ StartDisconnect(t)
           \/ \E p \in Ports : StartAttach(t, p)
           \/ \E h \in Handlers \cup {NoHandler} : StartConnect(t, h)
           \/ \E a \in Apps : StartInstall(t, a) \/ StartCallZome(t, a)
    PROVE  HInv'
<1>1. CASE StartConfigure(t) BY <1>1, HInvSend DEF StartConfigure
<1>2. CASE StartStartUp(t) BY <1>2, HInvSend DEF StartStartUp
<1>3. CASE StartShutDown(t) BY <1>3, HInvSend DEF StartShutDown, HInv, TypeOK
<1>4. CASE StartDisconnect(t) BY <1>4, HInvSend DEF StartDisconnect, HInv, TypeOK
<1>5. CASE \E p \in Ports : StartAttach(t, p) BY <1>5, HInvSend DEF StartAttach
<1>6. CASE \E h \in Handlers \cup {NoHandler} : StartConnect(t, h)
      BY <1>6, HInvSend DEF StartConnect, HInv, TypeOK
<1>7. CASE \E a \in Apps : StartInstall(t, a) BY <1>7, HInvSend DEF StartInstall
<1>8. CASE \E a \in Apps : StartCallZome(t, a) BY <1>8, HInvSend DEF StartCallZome
<1> QED BY <1>1, <1>2, <1>3, <1>4, <1>5, <1>6, <1>7, <1>8

\* on() and off() write the handler at the remembered port, which is attached.
LEMMA HInvOnOff ==
    ASSUME HInv, NEW t \in Tasks, (\E h \in Handlers : On(t, h)) \/ Off(t)
    PROVE  HInv'
<1>1. appInterfacePort # NoPort => appInterfacePort \in attached /\ appInterfacePort \in Ports
      BY DEF HInv, PortAttached, TypeOK
<1>2. CASE \E h \in Handlers : On(t, h)
  <2>1. PICK h \in Handlers : On(t, h) BY <1>2
  <2>2. /\ appInterfacePort # NoPort
        /\ signalHandlers' = [signalHandlers EXCEPT ![appInterfacePort] = h]
        /\ offCalled' = FALSE
        /\ UNCHANGED <<appInterfacePort, task, remoteVars, delivered, lost, threw>>
        BY <2>1 DEF On
  <2> QED BY <1>1, <2>2 DEF HInv, TypeOK, ArgsTyped, AttachOk, PortAttached,
             HandlerOnAttachedPort, remoteVars
<1>3. CASE Off(t)
  <2>2. /\ appInterfacePort # NoPort
        /\ signalHandlers' = [signalHandlers EXCEPT ![appInterfacePort] = NoHandler]
        /\ offCalled' = TRUE
        /\ UNCHANGED <<appInterfacePort, task, remoteVars, delivered, lost, threw>>
        BY <1>3 DEF Off
  <2> QED BY <1>1, <2>2 DEF HInv, TypeOK, ArgsTyped, AttachOk, PortAttached,
             HandlerOnAttachedPort, remoteVars
<1> QED BY <1>2, <1>3

LEMMA HInvResume ==
    ASSUME HInv, NEW t \in Tasks,
           \/ ResumeSimple(t) \/ ResumeShutDown(t) \/ ResumeAttach(t)
           \/ ResumeConnect(t) \/ ResumeInstall(t)
    PROVE  HInv'
<1>1. CASE ResumeSimple(t) BY <1>1, HInvDone DEF ResumeSimple, HInv, TypeOK, ghostVars
<1>2. CASE ResumeShutDown(t)
      BY <1>2, HInvDone, HInvSend DEF ResumeShutDown, HInv, TypeOK, ghostVars
<1>3. CASE ResumeAttach(t)
  <2>1. task[t].op = "attach" /\ task[t].ans # None /\ Done(t)
        BY <1>3 DEF ResumeAttach, Answered
  <2>2. appInterfacePort' \in attached \cup {NoPort}
        BY <1>3, <2>1 DEF ResumeAttach, HInv, AttachOk, PortAttached, TypeOK
  <2> QED BY <1>3, <2>1, <2>2, ConductorAssumption
          DEF ResumeAttach, HInv, Done, Idle, TypeOK, ArgsTyped, AttachOk, PortAttached,
              HandlerOnAttachedPort, TaskStates, Answers, remoteVars, ghostVars
<1>4. CASE ResumeConnect(t)
      BY <1>4 DEF ResumeConnect, Answered, HInv, Done, Idle, TypeOK, ArgsTyped, AttachOk,
                  PortAttached, HandlerOnAttachedPort, TaskStates, Answers, remoteVars
<1>5. CASE ResumeInstall(t)
  <2>1. task[t].op = "install" /\ task[t].arg \in Apps
        BY <1>5 DEF ResumeInstall, Answered, HInv, ArgsTyped
  <2> DEFINE a == task[t].arg
              ok == task[t].ans = "ok"
  <2>3. UNCHANGED <<appInterfacePort, signalHandlers, remoteVars, delivered, lost, offCalled>>
        BY <1>5 DEF ResumeInstall
  <2>4. CASE task[t].cmd = "generate_agent_pub_key" /\ ok
        <3>1. Send(t, "install", "install_app", a, NoHandler) /\ UNCHANGED threw
              BY <1>5, <2>4 DEF ResumeInstall
        <3> QED BY <3>1, <2>1, <2>3, HInvSend DEF ghostVars
  <2>5. CASE task[t].cmd = "install_app" /\ ok
        <3>1. Send(t, "install", "enable_app", a, NoHandler) /\ UNCHANGED threw
              BY <1>5, <2>5 DEF ResumeInstall
        <3> QED BY <3>1, <2>1, <2>3, HInvSend DEF ghostVars
  <2>6. CASE task[t].cmd = "enable_app" /\ ok
        <3>1. Done(t) /\ UNCHANGED threw BY <1>5, <2>6 DEF ResumeInstall
        <3> QED BY <3>1, <2>3, HInvDone DEF HInv, TypeOK
  <2>7. CASE ~(task[t].cmd = "generate_agent_pub_key" /\ ok)
             /\ ~(task[t].cmd = "install_app" /\ ok)
             /\ ~(task[t].cmd = "enable_app" /\ ok)
        <3>1. Done(t) /\ threw' = threw \cup {a} BY <1>5, <2>7 DEF ResumeInstall
        <3> QED BY <3>1, <2>1, <2>3, HInvDone DEF HInv, TypeOK
  <2> QED BY <2>4, <2>5, <2>6, <2>7
<1> QED BY <1>1, <1>2, <1>3, <1>4, <1>5

\* An answer fills in the answer of one task and keeps its request.
LEMMA AnswerFacts ==
    ASSUME TypeOK, ArgsTyped, NEW t \in Tasks, NEW ans \in Answers, Answer(t, ans)
    PROVE  /\ task' \in [Tasks -> TaskStates]
           /\ ArgsTyped'
           /\ task'[t].ans = ans
           /\ \A u \in Tasks : task'[u].op = task[u].op /\ task'[u].arg = task[u].arg
           /\ \A u \in Tasks : task'[u].cmd = task[u].cmd
           /\ \A u \in Tasks \ {t} : task'[u] = task[u]
BY DEF Answer, TypeOK, ArgsTyped, TaskStates

\* Facts each server case uses: the handle's side and the ghosts stay.
LEMMA ServeFrame ==
    ASSUME HInv, NEW t \in Tasks, NEW ans \in Answers, Answer(t, ans),
           UNCHANGED <<appInterfacePort, signalHandlers, ghostVars>>,
           phase' \in {"unconfigured", "configured", "running", "shutdown"},
           attached \subseteq attached', attached' \subseteq Ports,
           connected' \subseteq attached',
           apps' \in [Apps -> {"absent", "installed", "enabled"}],
           ans = "ok" /\ task[t].op = "attach" => task[t].arg \in attached'
    PROVE  HInv'
<1>1. /\ task' \in [Tasks -> TaskStates] /\ ArgsTyped' /\ task'[t].ans = ans
      /\ \A u \in Tasks : task'[u].op = task[u].op /\ task'[u].arg = task[u].arg
      /\ \A u \in Tasks \ {t} : task'[u] = task[u]
      BY AnswerFacts DEF HInv
<1>2. TypeOK' BY <1>1 DEF HInv, TypeOK, ghostVars
<1>3. AttachOk' BY <1>1 DEF HInv, AttachOk
<1> QED BY <1>1, <1>2, <1>3 DEF HInv, PortAttached, HandlerOnAttachedPort, ghostVars

\* The environment changes the remote state and answers; attached only grows.
LEMMA HInvServe ==
    ASSUME HInv, NEW t \in Tasks,
           ServeLifecycle(t) \/ ServeInterface(t) \/ ServeApps(t)
    PROVE  HInv'
<1>0. connected \subseteq attached /\ attached \subseteq Ports BY DEF HInv, TypeOK
<1>1. CASE ServeLifecycle(t)
  <2>0. UNCHANGED <<appInterfacePort, signalHandlers, attached, apps, ghostVars>>
        BY <1>1 DEF ServeLifecycle
  <2>1. task[t].op # "attach" BY <1>1 DEF ServeLifecycle, Awaiting, HInv, ArgsTyped
  <2>2. /\ phase' \in {"unconfigured", "configured", "running", "shutdown"}
        /\ connected' \subseteq connected
        /\ \E ans \in Answers : Answer(t, ans)
        BY <1>1 DEF ServeLifecycle, HInv, TypeOK
  <2> QED BY <1>0, <2>0, <2>1, <2>2, ServeFrame DEF HInv, TypeOK
<1>2. CASE ServeInterface(t)
  <2> DEFINE p == task[t].arg
  <2>0. UNCHANGED <<appInterfacePort, signalHandlers, phase, apps, ghostVars>>
        BY <1>2 DEF ServeInterface
  <2>1. CASE Awaiting(t, "attach_app_interface")
    <3>1. p \in Ports BY <2>1 DEF Awaiting, HInv, ArgsTyped
    <3>2. UNCHANGED connected BY <1>2, <2>1 DEF ServeInterface, Awaiting
    <3>3. \/ attached' = attached \cup {p} /\ Answer(t, "ok")
          \/ UNCHANGED attached /\ Answer(t, "err")
          BY <1>2, <2>1 DEF ServeInterface, Awaiting
    <3>4. task[t].op = "attach" => task[t].arg = p OBVIOUS
    <3> QED BY <1>0, <2>0, <3>1, <3>2, <3>3, ServeFrame DEF HInv, TypeOK
  <2>2. CASE Awaiting(t, "connect_app_interface")
    <3>1. p \in Ports BY <2>2 DEF Awaiting, HInv, ArgsTyped
    <3>2. UNCHANGED attached BY <1>2, <2>2 DEF ServeInterface, Awaiting
    <3>3. \/ p \in attached /\ connected' = connected \cup {p} /\ Answer(t, "ok")
          \/ UNCHANGED connected /\ Answer(t, "err")
          BY <1>2, <2>2 DEF ServeInterface, Awaiting
    <3>4. task[t].op # "attach" BY <2>2 DEF Awaiting, HInv, ArgsTyped
    <3> QED BY <1>0, <2>0, <3>1, <3>2, <3>3, <3>4, ServeFrame DEF HInv, TypeOK
  <2>3. CASE Awaiting(t, "disconnect_app_interface")
    <3>2. UNCHANGED attached BY <1>2, <2>3 DEF ServeInterface, Awaiting
    <3>3. \/ connected' = connected \ {p} /\ Answer(t, "ok")
          \/ UNCHANGED connected /\ Answer(t, "err")
          BY <1>2, <2>3 DEF ServeInterface, Awaiting
    <3>4. task[t].op # "attach" BY <2>3 DEF Awaiting, HInv, ArgsTyped
    <3> QED BY <1>0, <2>0, <3>2, <3>3, <3>4, ServeFrame DEF HInv, TypeOK
  <2> QED BY <1>2, <2>1, <2>2, <2>3 DEF ServeInterface
<1>3. CASE ServeApps(t)
  <2>0. UNCHANGED <<appInterfacePort, signalHandlers, phase, attached, connected, ghostVars>>
        BY <1>3 DEF ServeApps
  <2>1. task[t].op # "attach"
        BY <1>3 DEF ServeApps, Awaiting, HInv, ArgsTyped
  <2>2. apps' \in [Apps -> {"absent", "installed", "enabled"}]
        BY <1>3 DEF ServeApps, HInv, TypeOK
  <2>3. \E ans \in Answers : Answer(t, ans)
        BY <1>3 DEF ServeApps
  <2> QED BY <1>0, <2>0, <2>1, <2>2, <2>3, ServeFrame DEF HInv, TypeOK
<1> QED BY <1>1, <1>2, <1>3

LEMMA HInvSignal ==
    ASSUME HInv, NEW p \in Ports, Signal(p)
    PROVE  HInv'
BY DEF Signal, HInv, TypeOK, ArgsTyped, AttachOk, PortAttached, HandlerOnAttachedPort,
   handleVars, remoteVars

LEMMA HInvStep == HInv /\ [Next]_vars => HInv'
<1> SUFFICES ASSUME HInv, [Next]_vars PROVE HInv' OBVIOUS
<1>1. CASE UNCHANGED vars
      BY <1>1 DEF vars, handleVars, remoteVars, ghostVars, HInv, TypeOK, ArgsTyped,
                  AttachOk, PortAttached, HandlerOnAttachedPort
<1>2. CASE Next
  <2>1. CASE \E p \in Ports : Signal(p) BY <2>1, HInvSignal
  <2>2. CASE \E t \in Tasks :
            \/ StartConfigure(t) \/ StartStartUp(t) \/ StartShutDown(t) \/ StartDisconnect(t)
            \/ \E p \in Ports : StartAttach(t, p)
            \/ \E h \in Handlers : On(t, h)
            \/ \E h \in Handlers \cup {NoHandler} : StartConnect(t, h)
            \/ Off(t)
            \/ \E a \in Apps : StartInstall(t, a) \/ StartCallZome(t, a)
            \/ ResumeSimple(t) \/ ResumeShutDown(t) \/ ResumeAttach(t)
            \/ ResumeConnect(t) \/ ResumeInstall(t)
            \/ ServeLifecycle(t) \/ ServeInterface(t) \/ ServeApps(t)
        BY <2>2, HInvStart, HInvOnOff, HInvResume, HInvServe
  <2> QED BY <1>2, <2>1, <2>2 DEF Next
<1> QED BY <1>1, <1>2

(***************************************************************************)
(* For every instance: a signal handler is only ever registered for an app *)
(* interface port the conductor attached (on, off and connectAppInterface  *)
(* use appInterfacePort, which attachAppInterface sets after the answer).  *)
(***************************************************************************)
THEOREM HandlerOnAttachedPortInvariant == Spec => []HandlerOnAttachedPort
<1>1. Init => HInv BY HInvInit
<1>2. HInv /\ [Next]_vars => HInv' BY HInvStep
<1>3. HInv => HandlerOnAttachedPort BY DEF HInv
<1> QED BY <1>1, <1>2, <1>3, PTL DEF Spec

-----------------------------------------------------------------------------
(***************************************************************************)
(* NoSilentPartialInstall is not inductive either.  When the task that     *)
(* installed an app resumes after enable_app answered "ok" it ends without *)
(* a throw, which is only harmless because that answer enabled the app:    *)
(* an app is never disabled again, since install_app only succeeds on an   *)
(* absent app.  And the server's install_app answer must belong to a task  *)
(* of installApp, so the commands of installApp are exactly those of its   *)
(* tasks.                                                                   *)
(***************************************************************************)
InstallCmds == {"generate_agent_pub_key", "install_app", "enable_app"}

\* A task runs installApp exactly when it awaits one of its commands.
InstallTasks == \A t \in Tasks : task[t].op = "install" <=> task[t].cmd \in InstallCmds

\* An enable_app the server answered "ok" left its app enabled.
EnableOkEnabled ==
    \A t \in Tasks :
        task[t].cmd = "enable_app" /\ task[t].ans = "ok" => apps[task[t].arg] = "enabled"

NInv == InstallTasks /\ EnableOkEnabled /\ NoSilentPartialInstall

\* A task starts or continues a request; an installApp keeps its app.
LEMMA NInvSend ==
    ASSUME HInv, NInv, NEW t \in Tasks, NEW op, NEW cmd, NEW arg, NEW h,
           op = "install" <=> cmd \in InstallCmds,
           task[t].op = "install" => op = "install" /\ arg = task[t].arg,
           Send(t, op, cmd, arg, h), UNCHANGED <<apps, threw>>
    PROVE  NInv'
BY DEF NInv, InstallTasks, EnableOkEnabled, NoSilentPartialInstall, Send, HInv, TypeOK

\* A task ends; if it was installing an app still only installed, it threw.
LEMMA NInvDone ==
    ASSUME HInv, NInv, NEW t \in Tasks, Done(t), UNCHANGED apps, threw \subseteq threw',
           task[t].op = "install" /\ apps[task[t].arg] = "installed" => task[t].arg \in threw'
    PROVE  NInv'
BY DEF NInv, InstallTasks, InstallCmds, EnableOkEnabled, NoSilentPartialInstall, Done, Idle,
   HInv, TypeOK

LEMMA NInvStart ==
    ASSUME HInv, NInv, NEW t \in Tasks,
           \/ StartConfigure(t) \/ StartStartUp(t) \/ StartShutDown(t) \/ StartDisconnect(t)
           \/ \E p \in Ports : StartAttach(t, p)
           \/ \E h \in Handlers \cup {NoHandler} : StartConnect(t, h)
           \/ \E a \in Apps : StartInstall(t, a) \/ StartCallZome(t, a)
    PROVE  NInv'
<1> USE DEF InstallCmds, Idle, remoteVars, ghostVars
<1>1. CASE StartConfigure(t) BY <1>1, NInvSend DEF StartConfigure
<1>2. CASE StartStartUp(t) BY <1>2, NInvSend DEF StartStartUp
<1>3. CASE StartShutDown(t) BY <1>3, NInvSend DEF StartShutDown
<1>4. CASE StartDisconnect(t) BY <1>4, NInvSend DEF StartDisconnect
<1>5. CASE \E p \in Ports : StartAttach(t, p) BY <1>5, NInvSend DEF StartAttach
<1>6. CASE \E h \in Handlers \cup {NoHandler} : StartConnect(t, h)
      BY <1>6, NInvSend DEF StartConnect
<1>7. CASE \E a \in Apps : StartInstall(t, a) BY <1>7, NInvSend DEF StartInstall
<1>8. CASE \E a \in Apps : StartCallZome(t, a) BY <1>8, NInvSend DEF StartCallZome
<1> QED BY <1>1, <1>2, <1>3, <1>4, <1>5, <1>6, <1>7, <1>8

LEMMA NInvResume ==
    ASSUME HInv, NInv, NEW t \in Tasks,
           \/ ResumeSimple(t) \/ ResumeShutDown(t) \/ ResumeAttach(t)
           \/ ResumeConnect(t) \/ ResumeInstall(t)
    PROVE  NInv'
<1> USE DEF InstallCmds, remoteVars, ghostVars
<1>1. CASE ResumeSimple(t) BY <1>1, NInvDone DEF ResumeSimple, Answered
<1>2. CASE ResumeShutDown(t) BY <1>2, NInvDone, NInvSend DEF ResumeShutDown, Answered
<1>3. CASE ResumeAttach(t) BY <1>3, NInvDone DEF ResumeAttach, Answered
<1>4. CASE ResumeConnect(t) BY <1>4, NInvDone DEF ResumeConnect, Answered
<1>5. CASE ResumeInstall(t)
  <2> DEFINE a == task[t].arg
              ok == task[t].ans = "ok"
  <2>1. task[t].op = "install" BY <1>5 DEF ResumeInstall, Answered
  <2>2. UNCHANGED apps BY <1>5 DEF ResumeInstall
  <2>3. CASE task[t].cmd = "generate_agent_pub_key" /\ ok
        <3>1. Send(t, "install", "install_app", a, NoHandler) /\ UNCHANGED threw
              BY <1>5, <2>3 DEF ResumeInstall
        <3> QED BY <3>1, <2>1, <2>2, NInvSend
  <2>4. CASE task[t].cmd = "install_app" /\ ok
        <3>1. Send(t, "install", "enable_app", a, NoHandler) /\ UNCHANGED threw
              BY <1>5, <2>4 DEF ResumeInstall
        <3> QED BY <3>1, <2>1, <2>2, NInvSend
  <2>5. CASE task[t].cmd = "enable_app" /\ ok
        <3>1. Done(t) /\ UNCHANGED threw BY <1>5, <2>5 DEF ResumeInstall
        <3>2. apps[a] = "enabled" BY <2>5 DEF NInv, EnableOkEnabled
        <3> QED BY <3>1, <3>2, <2>2, NInvDone
  <2>6. CASE ~(task[t].cmd = "generate_agent_pub_key" /\ ok)
             /\ ~(task[t].cmd = "install_app" /\ ok)
             /\ ~(task[t].cmd = "enable_app" /\ ok)
        <3>1. Done(t) /\ threw' = threw \cup {a} BY <1>5, <2>6 DEF ResumeInstall
        <3> QED BY <3>1, <2>2, NInvDone
  <2> QED BY <2>3, <2>4, <2>5, <2>6
<1> QED BY <1>1, <1>2, <1>3, <1>4, <1>5

\* An answer: an enabled app stays enabled, an app becomes installed only
\* for the installApp that asked, and an enable answered "ok" enabled it.
LEMMA NInvAnswer ==
    ASSUME HInv, NInv, NEW t \in Tasks, NEW ans \in Answers, Answer(t, ans),
           UNCHANGED threw,
           \A b \in Apps : apps[b] = "enabled" => apps'[b] = "enabled",
           \A b \in Apps : apps'[b] = "installed" /\ apps[b] # "installed"
                              => task[t].op = "install" /\ task[t].arg = b,
           task[t].cmd = "enable_app" /\ ans = "ok" => apps'[task[t].arg] = "enabled"
    PROVE  NInv'
<1>1. /\ \A u \in Tasks : task'[u].op = task[u].op /\ task'[u].arg = task[u].arg
      /\ \A u \in Tasks : task'[u].cmd = task[u].cmd
      /\ task'[t].ans = ans
      /\ \A u \in Tasks \ {t} : task'[u] = task[u]
      BY AnswerFacts DEF HInv
<1>2. InstallTasks' BY <1>1 DEF NInv, InstallTasks
<1>3. EnableOkEnabled'
  <2> SUFFICES ASSUME NEW u \in Tasks, task'[u].cmd = "enable_app", task'[u].ans = "ok"
               PROVE  apps'[task'[u].arg] = "enabled"
      BY DEF EnableOkEnabled
  <2>1. task[u].arg \in Apps /\ task'[u].arg = task[u].arg
        BY <1>1 DEF NInv, InstallTasks, InstallCmds, HInv, ArgsTyped
  <2>2. CASE u = t BY <1>1, <2>2
  <2>3. CASE u # t
    <3>1. apps[task[u].arg] = "enabled" BY <1>1, <2>3 DEF NInv, EnableOkEnabled
    <3> QED BY <2>1, <3>1
  <2> QED BY <2>2, <2>3
<1>4. NoSilentPartialInstall' BY <1>1 DEF NInv, NoSilentPartialInstall
<1> QED BY <1>2, <1>3, <1>4 DEF NInv

LEMMA NInvServe ==
    ASSUME HInv, NInv, NEW t \in Tasks,
           ServeLifecycle(t) \/ ServeInterface(t) \/ ServeApps(t)
    PROVE  NInv'
<1> USE DEF ghostVars
<1>1. CASE ServeLifecycle(t)
  <2>1. UNCHANGED <<apps, threw>> /\ task[t].cmd # "enable_app" BY <1>1 DEF ServeLifecycle, Awaiting
  <2>2. \E ans \in Answers : Answer(t, ans) BY <1>1 DEF ServeLifecycle
  <2> QED BY <2>1, <2>2, NInvAnswer
<1>2. CASE ServeInterface(t)
  <2>1. UNCHANGED <<apps, threw>> /\ task[t].cmd # "enable_app" BY <1>2 DEF ServeInterface, Awaiting
  <2>2. \E ans \in Answers : Answer(t, ans) BY <1>2 DEF ServeInterface
  <2> QED BY <2>1, <2>2, NInvAnswer
<1>3. CASE ServeApps(t)
  <2> DEFINE a == task[t].arg
  <2>0. UNCHANGED threw BY <1>3 DEF ServeApps
  <2>1. CASE Awaiting(t, "install_app")
    <3>1. task[t].op = "install" /\ a \in Apps
          BY <2>1 DEF Awaiting, NInv, InstallTasks, InstallCmds, HInv, ArgsTyped
    <3>2. \/ apps[a] = "absent" /\ apps' = [apps EXCEPT ![a] = "installed"] /\ Answer(t, "ok")
          \/ UNCHANGED apps /\ Answer(t, "err")
          BY <1>3, <2>1 DEF ServeApps, Awaiting
    <3> QED BY <2>0, <2>1, <3>1, <3>2, NInvAnswer DEF Awaiting, HInv, TypeOK
  <2>2. CASE Awaiting(t, "enable_app")
    <3>1. a \in Apps BY <2>2 DEF Awaiting, NInv, InstallTasks, InstallCmds, HInv, ArgsTyped
    <3>2. \/ apps' = [apps EXCEPT ![a] = "enabled"] /\ Answer(t, "ok")
          \/ UNCHANGED apps /\ Answer(t, "errors")
          \/ UNCHANGED apps /\ Answer(t, "err")
          BY <1>3, <2>2 DEF ServeApps, Awaiting
    <3> QED BY <2>0, <3>1, <3>2, NInvAnswer DEF HInv, TypeOK
  <2>3. CASE ~Awaiting(t, "install_app") /\ ~Awaiting(t, "enable_app")
    <3>1. UNCHANGED apps /\ task[t].cmd # "enable_app" /\ \E ans \in Answers : Answer(t, ans)
          BY <1>3, <2>3 DEF ServeApps, Awaiting
    <3> QED BY <2>0, <3>1, NInvAnswer
  <2> QED BY <2>1, <2>2, <2>3
<1> QED BY <1>1, <1>2, <1>3

LEMMA NInvStep == HInv /\ NInv /\ [Next]_vars => NInv'
<1> SUFFICES ASSUME HInv, NInv, [Next]_vars PROVE NInv' OBVIOUS
<1>1. CASE UNCHANGED vars
      BY <1>1 DEF vars, handleVars, remoteVars, ghostVars, NInv, InstallTasks,
                  EnableOkEnabled, NoSilentPartialInstall
<1>2. CASE \E p \in Ports : Signal(p)
      BY <1>2 DEF Signal, handleVars, remoteVars, NInv, InstallTasks, EnableOkEnabled,
                  NoSilentPartialInstall
<1>3. CASE \E t \in Tasks : (\E h \in Handlers : On(t, h)) \/ Off(t)
      BY <1>3 DEF On, Off, remoteVars, NInv, InstallTasks, EnableOkEnabled,
                  NoSilentPartialInstall
<1>4. CASE \E t \in Tasks :
            \/ StartConfigure(t) \/ StartStartUp(t) \/ StartShutDown(t) \/ StartDisconnect(t)
            \/ \E p \in Ports : StartAttach(t, p)
            \/ \E h \in Handlers \cup {NoHandler} : StartConnect(t, h)
            \/ \E a \in Apps : StartInstall(t, a) \/ StartCallZome(t, a)
      BY <1>4, NInvStart
<1>5. CASE \E t \in Tasks :
            \/ ResumeSimple(t) \/ ResumeShutDown(t) \/ ResumeAttach(t)
            \/ ResumeConnect(t) \/ ResumeInstall(t)
      BY <1>5, NInvResume
<1>6. CASE \E t \in Tasks : ServeLifecycle(t) \/ ServeInterface(t) \/ ServeApps(t)
      BY <1>6, NInvServe
<1> QED BY <1>1, <1>2, <1>3, <1>4, <1>5, <1>6 DEF Next

(***************************************************************************)
(* For every instance: an app the conductor holds installed but not        *)
(* enabled belongs to an installApp that is still running or has thrown;   *)
(* installApp never returns for a half-installed app.                      *)
(***************************************************************************)
THEOREM NoSilentPartialInstallInvariant == Spec => []NoSilentPartialInstall
<1>1. Init => HInv /\ NInv
      BY HInvInit DEF Init, NInv, InstallTasks, EnableOkEnabled, NoSilentPartialInstall,
                      Idle, InstallCmds
<1>2. HInv /\ NInv /\ [Next]_vars => HInv' /\ NInv' BY HInvStep, NInvStep
<1>3. HInv /\ NInv => NoSilentPartialInstall BY DEF NInv
<1> QED BY <1>1, <1>2, <1>3, PTL DEF Spec

(***************************************************************************)
(* For every instance: every variable of the handle, the remote conductor  *)
(* and the ghosts keeps its type.                                          *)
(***************************************************************************)
THEOREM ConductorTypeCorrect == Spec => []TypeOK
<1>1. Init => HInv BY HInvInit
<1>2. HInv /\ [Next]_vars => HInv' BY HInvStep
<1>3. HInv => TypeOK BY DEF HInv
<1> QED BY <1>1, <1>2, <1>3, PTL DEF Spec

-----------------------------------------------------------------------------
(***************************************************************************)
(* installApp's contract as a step property.  Only the continuation of     *)
(* installApp ends a task that runs it (every other action keeps the       *)
(* method of every task, or starts one from idle), and it ends the task    *)
(* either after an enable answered "ok", which by EnableOkEnabled left the *)
(* app enabled, or by throwing.                                            *)
(***************************************************************************)
InstallEnds ==
    \A t \in Tasks :
        task[t].op = "install" /\ task'[t].op = "idle" =>
            task[t].arg \in threw' \/ apps'[task[t].arg] = "enabled"

\* A task other than the one that acts keeps its state.
LEMMA OtherTaskKept ==
    ASSUME TypeOK, NEW t \in Tasks, NEW u \in Tasks, u # t,
           \/ \E op, cmd, arg, h : Send(t, op, cmd, arg, h)
           \/ Done(t)
           \/ \E ans : Answer(t, ans)
    PROVE  task'[u] = task[u]
BY DEF Send, Done, Answer, TypeOK

LEMMA InstallEndsStep == HInv /\ NInv /\ [Next]_vars => InstallEnds
<1> SUFFICES ASSUME HInv, NInv, [Next]_vars,
                    NEW u \in Tasks, task[u].op = "install", task'[u].op = "idle"
             PROVE  task[u].arg \in threw' \/ apps'[task[u].arg] = "enabled"
    BY DEF InstallEnds
<1>0. TypeOK BY DEF HInv
<1> DEFINE Kept == task'[u] = task[u]
<1>1. CASE UNCHANGED vars BY <1>1 DEF vars, handleVars
<1>2. CASE \E p \in Ports : Signal(p) BY <1>2 DEF Signal, handleVars
<1>3. CASE \E t \in Tasks : (\E h \in Handlers : On(t, h)) \/ Off(t) BY <1>3 DEF On, Off
<1>4. CASE \E t \in Tasks :
            \/ StartConfigure(t) \/ StartStartUp(t) \/ StartShutDown(t) \/ StartDisconnect(t)
            \/ \E p \in Ports : StartAttach(t, p)
            \/ \E h \in Handlers \cup {NoHandler} : StartConnect(t, h)
            \/ \E a \in Apps : StartInstall(t, a) \/ StartCallZome(t, a)
  <2>1. PICK t \in Tasks : task[t] = Idle /\ \E op, cmd, arg, h : Send(t, op, cmd, arg, h)
        BY <1>4 DEF StartConfigure, StartStartUp, StartShutDown, StartDisconnect, StartAttach,
                    StartConnect, StartInstall, StartCallZome
  <2>2. u # t BY <2>1 DEF Idle
  <2> QED BY <1>0, <2>1, <2>2, OtherTaskKept
<1>5. CASE \E t \in Tasks : ServeLifecycle(t) \/ ServeInterface(t) \/ ServeApps(t)
  <2>1. PICK t \in Tasks : \E ans \in Answers : Answer(t, ans)
        BY <1>5 DEF ServeLifecycle, ServeInterface, ServeApps
  <2>2. task'[u].op = task[u].op BY <1>0, <2>1, AnswerFacts DEF HInv
  <2> QED BY <2>2
<1>6. CASE \E t \in Tasks : ResumeSimple(t) \/ ResumeShutDown(t) \/ ResumeAttach(t)
                            \/ ResumeConnect(t)
  <2>1. PICK t \in Tasks : /\ task[t].op # "install"
                           /\ \/ \E op, cmd, arg, h : Send(t, op, cmd, arg, h)
                              \/ Done(t)
        BY <1>6 DEF ResumeSimple, ResumeShutDown, ResumeAttach, ResumeConnect, Answered
  <2> QED BY <1>0, <2>1, OtherTaskKept
<1>7. CASE \E t \in Tasks : ResumeInstall(t)
  <2>1. PICK t \in Tasks : ResumeInstall(t) BY <1>7
  <2>2. CASE t # u
    <3>1. \/ \E op, cmd, arg, h : Send(t, op, cmd, arg, h)
          \/ Done(t)
          BY <2>1 DEF ResumeInstall
    <3> QED BY <1>0, <2>2, <3>1, OtherTaskKept
  <2>3. CASE t = u
    <3> DEFINE a == task[u].arg
               ok == task[u].ans = "ok"
    <3>1. UNCHANGED apps BY <2>1 DEF ResumeInstall, remoteVars
    <3>2. CASE task[u].cmd \in {"generate_agent_pub_key", "install_app"} /\ ok
      <4>1. \E cmd : Send(u, "install", cmd, a, NoHandler) BY <2>1, <2>3, <3>2 DEF ResumeInstall
      <4> QED BY <1>0, <4>1 DEF Send, TypeOK
    <3>3. CASE task[u].cmd = "enable_app" /\ ok
      <4>1. apps[a] = "enabled" BY <3>3 DEF NInv, EnableOkEnabled
      <4> QED BY <3>1, <4>1
    <3>4. CASE ~(task[u].cmd \in {"generate_agent_pub_key", "install_app", "enable_app"} /\ ok)
      <4>1. threw' = threw \cup {a} BY <2>1, <2>3, <3>4 DEF ResumeInstall
      <4> QED BY <4>1
    <3> QED BY <3>2, <3>3, <3>4
  <2> QED BY <2>2, <2>3
<1> QED BY <1>1, <1>2, <1>3, <1>4, <1>5, <1>6, <1>7 DEF Next

(***************************************************************************)
(* For every instance: every run of installApp throws or returns an app    *)
(* the conductor has enabled.                                              *)
(***************************************************************************)
THEOREM InstallReturnsEnabledProperty == Spec => InstallReturnsEnabled
<1>1. Init => HInv /\ NInv
      BY HInvInit DEF Init, NInv, InstallTasks, EnableOkEnabled, NoSilentPartialInstall,
                      Idle, InstallCmds
<1>2. HInv /\ NInv /\ [Next]_vars => HInv' /\ NInv' BY HInvStep, NInvStep
<1>3. HInv /\ NInv /\ [Next]_vars => [InstallEnds]_vars BY InstallEndsStep
<1> QED BY <1>1, <1>2, <1>3, PTL DEF Spec, InstallReturnsEnabled, InstallEnds

=============================================================================
