---------------------------- MODULE TryCpConductor ----------------------------
(***************************************************************************)
(* The TryCP conductor handle (src/unnamed/part_006, class TryCpConductor, *)
(* with enableAndGetAgentApp of part_007) used by concurrent tasks of a    *)
(* test.  Each method is an async function: it sends a request through the *)
(* TryCP client, awaits the answer, and runs its continuation.  A task's   *)
(* request and answer are task[t].cmd and task[t].ans; that the answer     *)
(* reaches the task that sent the request, and only it, is what module     *)
(* TryCpClient is proved to implement (RpcAbstract).                       *)
(*                                                                         *)
(* The remote side (the TryCP server and its conductor) is the             *)
(* environment; it answers each command as spec sections 3 and 4.3 say.   *)
(* Between the server executing a command and the task's continuation, the *)
(* conductor may push signals and other tasks may run.                     *)
(***************************************************************************)
EXTENDS FiniteSets

CONSTANTS
    Tasks,      \* concurrent async tasks of the test using one handle
    Ports,      \* ports getPort may return for an app interface
    Apps,       \* hApps the tasks install
    Handlers,   \* signal callbacks
    NoPort,     \* appInterfacePort = undefined
    NoHandler,  \* signalHandlers[port] = undefined
    Faults      \* remote faults a run allows: "portTaken", "enableErrors"

ASSUME ConductorAssumption ==
    /\ NoPort \notin Ports
    /\ NoHandler \notin Handlers
    /\ Faults \subseteq {"portTaken", "enableErrors"}

None == "none"

VARIABLES
    appInterfacePort,  \* TryCpConductor.appInterfacePort (line 138)
    signalHandlers,    \* the client's port -> handler table
    task,              \* task -> the method it runs and the request it awaits
    phase,             \* remote conductor: "unconfigured" .. "shutdown"
    attached,          \* app interfaces the conductor has attached
    connected,         \* app interfaces the TryCP server has a socket to
    apps,              \* hApp -> "absent" | "installed" | "enabled"
    delivered,         \* <<port, handler>> pairs a signal reached
    lost,              \* ports a signal was dropped on while a connect with a
                       \* handler was already accepted by the server
    threw,             \* hApps whose installApp threw
    offCalled          \* off() ran and no handler was registered since

handleVars == <<appInterfacePort, signalHandlers, task>>
remoteVars == <<phase, attached, connected, apps>>
ghostVars == <<delivered, lost, threw, offCalled>>
vars == <<handleVars, remoteVars, ghostVars>>

Ops == {"idle", "configure", "startUp", "shutDown", "attach", "connect",
        "disconnect", "install", "callZome"}
Cmds == {None, "configure_player", "startup", "shutdown", "attach_app_interface",
         "connect_app_interface", "disconnect_app_interface",
         "generate_agent_pub_key", "install_app", "enable_app", "call_zome"}
Answers == {None, "ok", "err", "errors"}
Idle == [op |-> "idle", cmd |-> None, arg |-> None, h |-> NoHandler, ans |-> None]
TaskStates == [op : Ops, cmd : Cmds, arg : Ports \cup Apps \cup {None},
               h : Handlers \cup {NoHandler}, ans : Answers]

Init ==
    /\ appInterfacePort = NoPort
    /\ signalHandlers = [p \in Ports |-> NoHandler]
    /\ task = [t \in Tasks |-> Idle]
    /\ phase = "unconfigured"
    /\ attached = {}
    /\ connected = {}
    /\ apps = [a \in Apps |-> "absent"]
    /\ delivered = {}
    /\ lost = {}
    /\ threw = {}
    /\ offCalled = FALSE

\* tryCpClient.call(...) inside a method: the task now awaits the answer.
Send(t, op, cmd, arg, h) ==
    task' = [task EXCEPT ![t] = [op |-> op, cmd |-> cmd, arg |-> arg, h |-> h, ans |-> None]]

Done(t) == task' = [task EXCEPT ![t] = Idle]

\* The task has the answer to the request it awaits, and resumes.
Answered(t, op) == task[t].op = op /\ task[t].ans # None

-----------------------------------------------------------------------------
(* The methods of TryCpConductor: a start action that runs up to the first *)
(* await, and a resume action per await.                                  *)

StartConfigure(t) ==
    /\ task[t] = Idle
    /\ Send(t, "configure", "configure_player", None, NoHandler)
    /\ UNCHANGED <<appInterfacePort, signalHandlers, remoteVars, ghostVars>>

StartStartUp(t) ==
    /\ task[t] = Idle
    /\ Send(t, "startUp", "startup", None, NoHandler)
    /\ UNCHANGED <<appInterfacePort, signalHandlers, remoteVars, ghostVars>>

\* shutDown(): disconnect the app interface if one was ever attached, then shut down.
StartShutDown(t) ==
    /\ task[t] = Idle
    /\ IF appInterfacePort # NoPort
          THEN Send(t, "shutDown", "disconnect_app_interface", appInterfacePort, NoHandler)
          ELSE Send(t, "shutDown", "shutdown", None, NoHandler)
    /\ UNCHANGED <<appInterfacePort, signalHandlers, remoteVars, ghostVars>>

\* adminWs().attachAppInterface(): getPort picks a port free on the local host.
StartAttach(t, p) ==
    /\ task[t] = Idle
    /\ Send(t, "attach", "attach_app_interface", p, NoHandler)
    /\ UNCHANGED <<appInterfacePort, signalHandlers, remoteVars, ghostVars>>

\* Mutant: connectAppInterface without the assert on the port.
StartConnectNoAssert(t, h) ==
    /\ task[t] = Idle
    /\ Send(t, "connect", "connect_app_interface", appInterfacePort, h)
    /\ UNCHANGED <<appInterfacePort, signalHandlers, remoteVars, ghostVars>>

\* connectAppInterface(handler?): the assert at line 247 throws when no port is set.
StartConnect(t, h) ==
    /\ task[t] = Idle
    /\ appInterfacePort # NoPort
    /\ Send(t, "connect", "connect_app_interface", appInterfacePort, h)
    /\ UNCHANGED <<appInterfacePort, signalHandlers, remoteVars, ghostVars>>

StartDisconnect(t) ==
    /\ task[t] = Idle
    /\ appInterfacePort # NoPort
    /\ Send(t, "disconnect", "disconnect_app_interface", appInterfacePort, NoHandler)
    /\ UNCHANGED <<appInterfacePort, signalHandlers, remoteVars, ghostVars>>

\* installApp(): the agent key is given, or generated first.
StartInstall(t, a) ==
    /\ task[t] = Idle
    /\ \/ Send(t, "install", "install_app", a, NoHandler)
       \/ Send(t, "install", "generate_agent_pub_key", a, NoHandler)
    /\ UNCHANGED <<appInterfacePort, signalHandlers, remoteVars, ghostVars>>

\* appWs().callZome() through callAppApi, which asserts a port is set.
StartCallZome(t, a) ==
    /\ task[t] = Idle
    /\ appInterfacePort # NoPort
    /\ Send(t, "callZome", "call_zome", a, NoHandler)
    /\ UNCHANGED <<appInterfacePort, signalHandlers, remoteVars, ghostVars>>

\* on(handler) and off(): synchronous; they assert a port is set.
On(t, h) ==
    /\ appInterfacePort # NoPort
    /\ signalHandlers' = [signalHandlers EXCEPT ![appInterfacePort] = h]
    /\ offCalled' = FALSE
    /\ UNCHANGED <<appInterfacePort, task, remoteVars, delivered, lost, threw>>

Off(t) ==
    /\ appInterfacePort # NoPort
    /\ signalHandlers' = [signalHandlers EXCEPT ![appInterfacePort] = NoHandler]
    /\ offCalled' = TRUE
    /\ UNCHANGED <<appInterfacePort, task, remoteVars, delivered, lost, threw>>

\* configure(), startUp(), disconnectAppInterface(), callZome(): assert the
\* answer and return, or throw.
ResumeSimple(t) ==
    /\ \E op \in {"configure", "startUp", "disconnect", "callZome"} : Answered(t, op)
    /\ Done(t)
    /\ UNCHANGED <<appInterfacePort, signalHandlers, remoteVars, ghostVars>>

ResumeShutDown(t) ==
    /\ Answered(t, "shutDown")
    /\ IF task[t].cmd = "disconnect_app_interface" /\ task[t].ans = "ok"
          THEN Send(t, "shutDown", "shutdown", None, NoHandler)
          ELSE Done(t)
    /\ UNCHANGED <<appInterfacePort, signalHandlers, remoteVars, ghostVars>>

\* Mutant: the port is remembered whatever the answer.
ResumeAttachAnyAnswer(t) ==
    /\ Answered(t, "attach")
    /\ appInterfacePort' = task[t].arg
    /\ Done(t)
    /\ UNCHANGED <<signalHandlers, remoteVars, ghostVars>>

\* After the assert on the answer: this.appInterfacePort = request.port.
ResumeAttach(t) ==
    /\ Answered(t, "attach")
    /\ appInterfacePort' = IF task[t].ans = "ok" THEN task[t].arg ELSE appInterfacePort
    /\ Done(t)
    /\ UNCHANGED <<signalHandlers, remoteVars, ghostVars>>

\* After the answer: setSignalHandler(this.appInterfacePort, handler), with
\* the field read again after the await.
ResumeConnect(t) ==
    /\ Answered(t, "connect")
    /\ IF task[t].ans = "ok"
          THEN /\ signalHandlers' = [signalHandlers EXCEPT ![appInterfacePort] = task[t].h]
               /\ offCalled' = FALSE
          ELSE UNCHANGED <<signalHandlers, offCalled>>
    /\ Done(t)
    /\ UNCHANGED <<appInterfacePort, remoteVars, delivered, lost, threw>>

\* Mutant: enableAndGetAgentApp without the check of enableAppResponse.errors.
ResumeInstallIgnoreErrors(t) ==
    /\ Answered(t, "install")
    /\ LET a == task[t].arg
           ok == task[t].ans \in {"ok", "errors"}
       IN  CASE task[t].cmd = "generate_agent_pub_key" /\ ok ->
                    Send(t, "install", "install_app", a, NoHandler) /\ UNCHANGED threw
             [] task[t].cmd = "install_app" /\ ok ->
                    Send(t, "install", "enable_app", a, NoHandler) /\ UNCHANGED threw
             [] task[t].cmd = "enable_app" /\ ok -> Done(t) /\ UNCHANGED threw
             [] OTHER -> Done(t) /\ threw' = threw \cup {a}
    /\ UNCHANGED <<appInterfacePort, signalHandlers, remoteVars, delivered, lost, offCalled>>

\* installApp(): generate the key, install, then enableAndGetAgentApp, which
\* throws when the enable answer lists errors.  A failure anywhere throws.
ResumeInstall(t) ==
    /\ Answered(t, "install")
    /\ LET a == task[t].arg
           ok == task[t].ans = "ok"
       IN  CASE task[t].cmd = "generate_agent_pub_key" /\ ok ->
                    Send(t, "install", "install_app", a, NoHandler) /\ UNCHANGED threw
             [] task[t].cmd = "install_app" /\ ok ->
                    Send(t, "install", "enable_app", a, NoHandler) /\ UNCHANGED threw
             [] task[t].cmd = "enable_app" /\ ok -> Done(t) /\ UNCHANGED threw
             [] OTHER -> Done(t) /\ threw' = threw \cup {a}
    /\ UNCHANGED <<appInterfacePort, signalHandlers, remoteVars, delivered, lost, offCalled>>

-----------------------------------------------------------------------------
(* The TryCP server and its conductor, as the environment (spec 3, 4.3).  *)

Awaiting(t, cmd) == task[t].cmd = cmd /\ task[t].ans = None
Answer(t, ans) == task' = [task EXCEPT ![t].ans = ans]

ServeLifecycle(t) ==
    /\ \/ /\ Awaiting(t, "configure_player")
          /\ IF phase = "unconfigured"
                THEN phase' = "configured" /\ Answer(t, "ok")
                ELSE UNCHANGED phase /\ Answer(t, "err")
          /\ UNCHANGED connected
       \/ /\ Awaiting(t, "startup")
          /\ IF phase = "configured"
                THEN phase' = "running" /\ Answer(t, "ok")
                ELSE UNCHANGED phase /\ Answer(t, "err")
          /\ UNCHANGED connected
       \/ /\ Awaiting(t, "shutdown")
          /\ IF phase = "running"
                THEN phase' = "shutdown" /\ connected' = {} /\ Answer(t, "ok")
                ELSE UNCHANGED <<phase, connected>> /\ Answer(t, "err")
    /\ UNCHANGED <<appInterfacePort, signalHandlers, attached, apps, ghostVars>>

ServeInterface(t) ==
    /\ LET p == task[t].arg IN
       \/ /\ Awaiting(t, "attach_app_interface")
          /\ IF phase = "running" /\ p \notin attached
                THEN \/ attached' = attached \cup {p} /\ Answer(t, "ok")
                     \/ "portTaken" \in Faults /\ UNCHANGED attached /\ Answer(t, "err")
                ELSE UNCHANGED attached /\ Answer(t, "err")
          /\ UNCHANGED connected
       \/ /\ Awaiting(t, "connect_app_interface")
          /\ IF phase = "running" /\ p \in attached
                THEN connected' = connected \cup {p} /\ Answer(t, "ok")
                ELSE UNCHANGED connected /\ Answer(t, "err")
          /\ UNCHANGED attached
       \/ /\ Awaiting(t, "disconnect_app_interface")
          /\ IF p \in connected
                THEN connected' = connected \ {p} /\ Answer(t, "ok")
                ELSE UNCHANGED connected /\ Answer(t, "err")
          /\ UNCHANGED attached
    /\ UNCHANGED <<appInterfacePort, signalHandlers, phase, apps, ghostVars>>

ServeApps(t) ==
    /\ LET a == task[t].arg IN
       \/ /\ Awaiting(t, "generate_agent_pub_key")
          /\ Answer(t, IF phase = "running" THEN "ok" ELSE "err")
          /\ UNCHANGED apps
       \/ /\ Awaiting(t, "install_app")
          /\ IF phase = "running" /\ apps[a] = "absent"
                THEN apps' = [apps EXCEPT ![a] = "installed"] /\ Answer(t, "ok")
                ELSE UNCHANGED apps /\ Answer(t, "err")
       \/ /\ Awaiting(t, "enable_app")
          /\ IF phase = "running" /\ apps[a] # "absent"
                THEN \/ apps' = [apps EXCEPT ![a] = "enabled"] /\ Answer(t, "ok")
                     \/ "enableErrors" \in Faults /\ UNCHANGED apps /\ Answer(t, "errors")
                ELSE UNCHANGED apps /\ Answer(t, "err")
       \/ /\ Awaiting(t, "call_zome")
          /\ Answer(t, IF phase = "running" /\ apps[a] = "enabled" /\ appInterfacePort \in connected
                          THEN "ok" ELSE "err")
          /\ UNCHANGED apps
    /\ UNCHANGED <<appInterfacePort, signalHandlers, phase, attached, connected, ghostVars>>

\* The conductor emits a signal on a connected app interface; the client's
\* listener hands it to the port's handler or drops it.
Signal(p) ==
    /\ phase = "running"
    /\ p \in connected
    /\ IF signalHandlers[p] # NoHandler
          THEN delivered' = delivered \cup {<<p, signalHandlers[p]>>} /\ UNCHANGED lost
          ELSE /\ UNCHANGED delivered
               /\ lost' = IF \E t \in Tasks : /\ task[t].cmd = "connect_app_interface"
                                              /\ task[t].ans = "ok" /\ task[t].arg = p
                                              /\ task[t].h # NoHandler
                             THEN lost \cup {p} ELSE lost
    /\ UNCHANGED <<handleVars, remoteVars, threw, offCalled>>

-----------------------------------------------------------------------------
Next ==
    \/ \E t \in Tasks :
        \/ StartConfigure(t) \/ StartStartUp(t) \/ StartShutDown(t) \/ StartDisconnect(t)
        \/ \E p \in Ports : StartAttach(t, p)
        \/ \E h \in Handlers : On(t, h)
        \/ \E h \in Handlers \cup {NoHandler} : StartConnect(t, h)
        \/ Off(t)
        \/ \E a \in Apps : StartInstall(t, a) \/ StartCallZome(t, a)
        \/ ResumeSimple(t) \/ ResumeShutDown(t) \/ ResumeAttach(t)
        \/ ResumeConnect(t) \/ ResumeInstall(t)
        \/ ServeLifecycle(t) \/ ServeInterface(t) \/ ServeApps(t)
    \/ \E p \in Ports : Signal(p)

Spec == Init /\ [][Next]_vars

-----------------------------------------------------------------------------
TypeOK ==
    /\ appInterfacePort \in Ports \cup {NoPort}
    /\ signalHandlers \in [Ports -> Handlers \cup {NoHandler}]
    /\ task \in [Tasks -> TaskStates]
    /\ phase \in {"unconfigured", "configured", "running", "shutdown"}
    /\ attached \subseteq Ports
    /\ connected \subseteq attached
    /\ apps \in [Apps -> {"absent", "installed", "enabled"}]
    /\ delivered \subseteq Ports \X Handlers
    /\ lost \subseteq Ports
    /\ threw \subseteq Apps
    /\ offCalled \in BOOLEAN

(***************************************************************************)
(* A handler is only ever registered for an app interface the conductor    *)
(* really attached: on(), off() and connectAppInterface() use the port the *)
(* handle remembered, and attachAppInterface remembers a port only after   *)
(* the server confirmed the attach.                                        *)
(***************************************************************************)
HandlerOnAttachedPort ==
    \A p \in Ports : signalHandlers[p] # NoHandler => p \in attached

(***************************************************************************)
(* No silent partial install (spec sections 6 and 9): an app the conductor *)
(* holds installed but not enabled is one whose installApp is still        *)
(* running or has thrown; installApp never returns an AgentApp for it.      *)
(***************************************************************************)
NoSilentPartialInstall ==
    \A a \in Apps :
        apps[a] = "installed" =>
            \/ a \in threw
            \/ \E t \in Tasks : task[t].op = "install" /\ task[t].arg = a

(***************************************************************************)
(* installApp's contract (spec sections 6 and 9): every run of installApp  *)
(* ends by throwing, or by returning an AgentApp whose hApp the conductor  *)
(* has enabled; a partial install or an enable that reported errors never  *)
(* returns normally.                                                       *)
(***************************************************************************)
InstallReturnsEnabled ==
    [][\A t \in Tasks :
          task[t].op = "install" /\ task'[t].op = "idle" =>
              task[t].arg \in threw' \/ apps'[task[t].arg] = "enabled"]_vars

(***************************************************************************)
(* Spec 3 and the doc comment of off(): the signal sink is cleared on      *)
(* detach.  After off(), and until a handler is registered again, no port  *)
(* has a handler, so no signal reaches a test callback.                    *)
(***************************************************************************)
OffDetachesHandler ==
    offCalled => \A p \in Ports : signalHandlers[p] = NoHandler

(***************************************************************************)
(* A signal the conductor pushes after the server accepted                 *)
(* connect_app_interface for a port reaches the handler given to           *)
(* connectAppInterface; it is not dropped for want of a handler.            *)
(***************************************************************************)
NoSignalLostAfterConnect == lost = {}

=============================================================================
