# Formal models of try-o-rama

This directory holds TLA+ models of the try-o-rama test harness, TLC configurations that check them, and TLAPS proofs. They sit beside the TypeScript sources under `src/`.

## The system

try-o-rama drives Holochain conductors from test scenarios. Its parts interact like this:

- **TryCP client** (`src/ts/src/trycp/trycp-client.ts`, first class). It keeps one web socket to a TryCP server and multiplexes every request over it:
  - `call()` registers a promise in `requestPromises` under the module-global counter `requestId`, encodes the request with msgpack, sends it, and increments the counter.
  - The `message` listener decodes each frame.
    - A signal goes to the handler registered in `signalHandlers` for its port.
    - A response settles the promise under its id and deletes the entry. A `"0"` response resolves, or rejects when the Admin API reports an error. A `"1"` response rejects. Any other shape throws.
  - `close()` starts the web socket closing handshake.
- **Wire types** (`types.ts`). A response wrapper carries an `id` and either a `0` (success) or a `1` (error) property. A signal wrapper carries a port.
- **Legacy client** (second class in `trycp-client.ts`). It is an older variant with the same request table.
- **TryCpConductor** (`src/unnamed/part_006`). It is a conductor handle built on the client:
  - configure, startUp and shutDown;
  - attach, connect and disconnect of the app interface;
  - signal handlers;
  - admin and app API calls;
  - installApp followed by enableApp.
- **Scenario helpers** (`part_007`). They cover:
  - sharing agent info between all conductors;
  - enabling an app and building callable cells;
  - spawning the signalling server.
- **Legacy Player / Orchestrator** (`part_008`, `part_005`). These are conductor lifecycles driven by the older API.
- **Tests, nix build files and generated docs.** None of these has runtime behaviour of its own.

## Inventory: state, operations, hazards, correctness

| Component | State | Operations | Hard behaviour | What makes it correct |
|---|---|---|---|---|
| TryCP client | `requestId`, `requestPromises`, `signalHandlers`, `ws.readyState` | call, message (signal, response, unknown), setSignalHandler, close | the server answers in any order; duplicate and unknown ids; encoding fails after registration; send on a closed socket; server drop | each response settles only its own caller; the table is exact; every call settles |
| TryCpConductor | `appInterfacePort`, `id`, app websockets | configure, startUp, shutDown, attach/connect/disconnect, installApp+enable | signal arrives before handler registration; port not reset by shutDown; install/enable not atomic | calls only in the right lifecycle phase; no signal lost after connect |
| Agent sharing | agent infos per conductor | addAllAgentsToAllConductors | `addAgentInfo` not awaited | every conductor knows every agent when the helper returns |
| Player | `_conductor` | spawn, kill, cleanup | check-then-act across `await` | at most one conductor per player |

PROJECT.json lists every hazard at its source line, with the properties that catch it.

## Modules

| Module | Models | Runs |
|---|---|---|
| `TryCpClient` | the TryCP client and its server | MCTryCpClient*.cfg |
| `RpcAbstract` | what a call promises its caller (spec 4.2, 8) | refinement target |
| `TryCpClientProofs` | TLAPS proofs about the client | |
| `TryCpConductor` | the conductor handle used by concurrent tasks, with the remote conductor as environment | MCTryCpConductor*.cfg |
| `TryCpConductorProofs` | TLAPS proofs about the handle | |
| `LegacyTryCpClient` | the second client class of trycp-client.ts | MCLegacyTryCpClient*.cfg |
| `LegacyTryCpClientProofs` | TLAPS proof about the legacy client | |
| `AgentSharing` | addAllAgentsToAllConductors | MCAgentSharing*.cfg |
| `Player` | Player.spawn and Player.kill | MCPlayer*.cfg |
| `PlayerProofs` | TLAPS proof about the player | |

Each `MC*.tla` module gives the constants model values; the cfgs choose the faults.

### TryCpClient

- **State.**
  - `requestId`, `requestPromises` (id → caller, or `NoPromise`), `signalHandlers` and `readyState` stand for the client's fields.
  - Each logical caller awaits one call at a time. `callState`, `callId`, `callReq` and `callResult` describe its latest call.
  - A JavaScript promise is identified by its caller and the id it was registered under. Settling an entry whose caller no longer waits on that id is a no-op (`Settle`), as it is for a settled or orphaned promise. Only a resolve hands the caller a value.
- **Server.** `serverInbox` holds requests received and not answered; `toClient` is the socket's frame sequence; `responded` remembers sent responses, so duplicates can be sent; `delivered` records which handler a signal reached.
- **Actions.**
  - `Call` models the whole of `call()`: register, send when the socket is OPEN, increment. On a socket that is not OPEN, `ws.send` does not throw: the frame is lost and the promise stays registered.
  - `CallEncodeFails` models `msgpack.encode` throwing after the registration. The entry stays behind and `requestId` is not incremented.
  - `ReceiveResponse`, `ReceiveSignal` and `ReceiveClose` model the listener's branches and the close event; `SetSignalHandler` and `Close` the remaining public operations.
  - `ServerRespond`, `ServerSignal`, `ServerDuplicate` and `ServerClose` are the environment. The constant `Behaviours` selects the faults a run allows: `malformed`, `duplicate`, `encodeFail`, `close` and `drop`.
- **Refinement.** `Rpc == INSTANCE RpcAbstract WITH ...` maps the callers' `callState`, `callReq` and `callResult` to themselves; `ImplementsRpc == Rpc!Spec`. In `RpcAbstract` a caller not waiting may `Invoke` (the promise waits) or `Throw`; a waiting caller may `Resolve`, with its own request's answer, or `Reject`. Every client step maps to one of these or to a stutter.

### TryCpConductor (composition with the client)

Each task of a test runs one method of the handle at a time. `task[t]` holds the method (`op`), the request it awaits (`cmd`, `arg`, the handler `h`) and the answer (`ans`). A method is a start action, which runs up to the first `await` and sends a request (`Send`, i.e. `callAdminApi`/`callAppApi` through `tryCpClient.call`), and a resume action per await. Between the two, other tasks run, the server answers requests in any order and the conductor emits signals. Treating each call as one request and one answer for its task is exactly the promise `RpcAbstract` states, which `TryCpClient` is proved to implement: this is how the two modules compose.

- `appInterfacePort` and `signalHandlers` are the handle's field and the client's table. `phase`, `attached`, `connected` and `apps` are the remote conductor, modelled from spec sections 3 and 4.3 (the server code is not in this repository). `Faults` adds a port that turns out taken and an enable answer listing errors.
- `StartShutDown`/`ResumeShutDown` follow `shutDown()`: disconnect first if a port was ever set, and stop at the first refused request.
- `ResumeConnect` registers the handler at `this.appInterfacePort` read after the await (line 253).
- `StartInstall`/`ResumeInstall` follow `installApp()`: optional `generateAgentPubKey`, `installApp`, then `enableAndGetAgentApp`, which throws when the enable answer lists errors (part_007:112).
- Ghost variables: `delivered`, `lost` (a signal dropped on a port whose connect was already accepted, with a handler waiting to be registered), `threw` (hApps whose installApp threw), `offCalled`.

### LegacyTryCpClient

The older client class: the same counter and table, but the listener looks the entry up without checking it, has no signal branch and no try/catch, and deletes the entry after every response, also one of unknown shape. A throw out of the `ws` listener is an uncaught exception: `crashed` ends every action.

### AgentSharing

Each conductor's outer callback reads its agent infos (the conductor answers with every agent its peer store holds at that moment, including agents learned from others), then sends them to every other conductor without awaiting. `Return` is the outer `Promise.all` resolving; `ApplyAgentInfo` is a conductor applying a request.

### Player

`spawn()` and `kill()` split at their awaits (`onJoin`, `_spawnConductor`, `initialize`, `c.kill`, `onLeave`). Early returns with a warning are stutters. Process ids may be reused after exit.

## Runs

| Run | cfg | Expect | What it shows |
|---|---|---|---|
| client_safety | MCTryCpClient.cfg | pass (1.5M states, 75 s) | `TypeOK`, `Correlation`, `PromiseTableExact` and the refinement `ImplementsRpc`, under every fault at once |
| client_liveness | MCTryCpClientLive.cfg | pass | `EveryCallSettles` with well-formed, possibly duplicated answers |
| client_close_pending | MCTryCpClientClose.cfg | violation | close leaves calls pending forever (finding 1) |
| conductor_safety | MCTryCpConductor.cfg | pass (1.9M states, 100 s) | `TypeOK`, `HandlerOnAttachedPort`, `NoSilentPartialInstall`, and the action property `InstallReturnsEnabled` |
| conductor_signal_lost | MCTryCpConductorSignal.cfg | violation | finding 2 |
| conductor_off_stale_port | MCTryCpConductorOff.cfg | violation | finding 3 |
| legacy_table | MCLegacyTryCpClient.cfg | pass | `PendingRegistered` under every legacy fault |
| legacy_crash | MCLegacyTryCpClientCrash.cfg | violation | finding 4 (a duplicated response only) |
| agent_sharing_liveness | MCAgentSharing.cfg | pass | `EventuallyAllShared` |
| agent_sharing_returns_early | MCAgentSharingReturn.cfg | violation | finding 5 |
| player_kill | MCPlayer.cfg | pass | `ExclusiveKill` |
| player_double_spawn | MCPlayerLeak.cfg | violation | finding 6 |

**Properties.**
- `Correlation`: a resolved call resolved with the answer to its own request.
- `PromiseTableExact`: every waiting caller is registered under its id, and every entry belongs to a waiting caller, except the one left behind by a failed encoding at the next id.
- `EveryCallSettles`: each pending call eventually settles. `ClosedLeavesNoCallPending`: spec 4.2's promise that closing rejects outstanding calls.
- `ImplementsRpc`: the refinement above.
- `HandlerOnAttachedPort`: a handler is only registered on a port the conductor attached (the port is remembered only after the attach was confirmed, and re-read after the connect's await).
- `NoSilentPartialInstall`: an app installed but not enabled belongs to an installApp that is still running or threw. `InstallReturnsEnabled` (an action property): every step that ends an installApp either throws or leaves its app enabled.
- `OffDetachesHandler`, `NoSignalLostAfterConnect`: what spec 3 and 4.3 say of off() and of signal routing.
- `PendingRegistered` (legacy): a pending caller whose request the server holds is still registered under its id. `NoCrashOnUnexpectedFrame`: spec 4.2 and 8.
- `SharedWhenReturned`: once the helper returned, every conductor holds every agent. `EventuallyAllShared`: eventually, and for good.
- `ExclusiveKill`: each kill() (a test's own, or the one cleanup() makes while the test's may still be awaiting) stops its own running process: no second kill and no spawn that reused the id holds it. Breaking it takes two tasks (the `KillLate` mutant, clearing `_conductor` after the await, lets two kills take the same process). `NoLeakedConductor`: every running process is the player's conductor or held by a spawn or kill in progress.

**Bounds.**
- Client: three ids give two callers waiting at once, answered in either order; a third call reusing a caller, so a stale duplicate of its earlier answer can arrive while it waits on a new id; and an orphaned entry from a failed encode being overwritten. Two frames in flight allow a response to overtake a signal and a duplicate to follow its original.
- Conductor: two tasks and two ports are the least for a second attach, an attach racing a connect, and two installs of one hApp. Tasks and ports are symmetric (no liveness is checked on this instance).
- Agent sharing: three conductors, so that a snapshot can already contain agents learned from a third.
- Player: three tasks and three process ids, so that two spawns and a kill can overlap.
Each mutant listed in PROJECT.json is caught under these bounds.

**Fairness.**
- Client: the Node event loop eventually runs the `message` listener for every received frame (weak fairness on the receive actions). The server answers each request it holds; this is strong fairness, because the bounded socket can keep the answer disabled while it is full of signals. Callers, signals, close and faults are not fair.
- Agent sharing: every settled promise's continuation runs (weak fairness on each callback step and on `Return`), and each conductor answers and applies every admin request it received.
- Deadlock is not checked for the legacy client (a crash stops it, and a test stops calling) and for agent sharing (the helper ends). It is checked for the client, the conductor and the player, where some task can always act.

## Findings

1. `close()` (trycp-client.ts:174) and the server's close leave every outstanding promise unsettled. A call made after close is registered but never sent. Spec 4.2 says they are rejected with ConnectionClosed.
2. `connectAppInterface` registers the handler only after the connect answer (part_006:253). A signal emitted in between is dropped.
3. A second `attachAppInterface` is accepted and overwrites `appInterfacePort` (part_006:507); `off()` then clears the new port only and the old handler keeps receiving signals. Spec 4.3 says the second attach fails with InterfaceAlreadyAttached.
4. The legacy listener destructures `requestPromises[id]` unchecked (trycp-client.ts:350): a duplicated response or a signal frame kills the process.
5. `addAllAgentsToAllConductors` does not await `addAgentInfo` (part_007:88): it returns before the agents are shared, and a rejection is unhandled.
6. Two concurrent `Player.spawn()` calls both pass the check at part_008:134; the first conductor is overwritten and never killed.

Seen while modelling, listed as hazards in PROJECT.json, without a run of their own:
- A response with neither `0` nor `1` throws at trycp-client.ts:122, before the delete at line 124; the outer catch only logs, so the call never settles. The legacy listener instead deletes the entry unsettled (line 364): the same hang.
- `shutDown()` keeps no lifecycle state and never resets `appInterfacePort` (part_006:188): a second call sends a disconnect for the old port and a shutdown to a shut-down conductor. Spec 4.3 says it is a no-op success; what the TryCP server answers is outside this repository.

## Proofs (TLAPS)

The proofs hold for every value of the constants that satisfies the module's assumption (`ConstAssumption`, `ConductorAssumption`, `LegacyAssumption`, `PlayerAssumption`). Every inductive invariant below was first checked by TLC as an invariant of the module's passing run, then proved in three parts: `Init` implies it, every step of `Next` (or a stutter) keeps it, and it implies the property. The step proof has one lemma per group of actions.

- **`TryCpClientProofs`**
  - `TypeCorrect`: `Spec => []TypeOK`, one step per action.
  - `PromiseTableExactInvariant`: the inductive invariant is `IInv == TypeOK /\ PromiseTableExact /\ PendingBelow`, where `PendingBelow` says that every waiting caller's id is below `requestId` (so `call()` never overwrites the slot of a waiting caller).
  - `CorrelationInvariant`: `Spec => []Correlation`. `Correlation` is not inductive: a response in flight could carry any value. The strengthening `CInv == IInv /\ InFlightGood /\ Correlation` adds that every request the server holds, every response it has sent and every response frame in the socket carries an id below `requestId` and, if a caller waits on that id, that caller's request. `Call` keeps this because the new id is fresh (no frame carries it); a receive keeps it because the tail of the socket keeps the property (`TailGood`); a duplicate because `responded` already has it (`AppendGood`).
  - `RefinesRpc`: `Spec => ImplementsRpc`. `Init` maps to `Rpc!Init`; under `CInv` every step maps to an `RpcAbstract` step or a stutter (`RefineStep`): `Call` is `Invoke`, `CallEncodeFails` is `Throw`, a receive that settles is `Resolve` (its value is the caller's request by `InFlightGood`) or `Reject`, and every other action leaves the callers alone.
- **`TryCpConductorProofs`**
  - `HandlerOnAttachedPortInvariant`. Inductive invariant `HInv`: types, `ArgsTyped` (each task's argument has the type its command needs, and an attach task awaits an attach), `AttachOk` (an attach answered "ok" names an attached port) and `PortAttached` (the remembered port is attached). The server only adds to `attached`, so all four survive its answers.
  - `ConductorTypeCorrect`: `Spec => []TypeOK`, from `HInv`.
  - `NoSilentPartialInstallInvariant`. The property is not inductive: the continuation of installApp ends without a throw after an enable, which is harmless only if that enable succeeded. The strengthening `NInv` adds `InstallTasks` (a task runs installApp exactly when it awaits one of installApp's commands, so the server's install_app answer belongs to an installApp) and `EnableOkEnabled` (an enable answered "ok" left its app enabled; install_app only succeeds on an absent app, so an enabled app never goes back). `NInv` is proved together with `HInv`, which supplies the argument types.
  - `InstallReturnsEnabledProperty`: `Spec => InstallReturnsEnabled`. Under `HInv /\ NInv` every step satisfies the step formula (`InstallEndsStep`): every action but installApp's continuation keeps the method of every task it does not start from idle (`OtherTaskKept`, `AnswerFacts`), and that continuation ends a task after an enable answered "ok" (the app is enabled by `EnableOkEnabled`) or by throwing.
- **`LegacyTryCpClientProofs`**: `PendingRegisteredInvariant`. The property is not inductive: a call writes the entry at `requestId`, and the listener deletes the entry of whatever frame it reads. The strengthening `LInv` adds `InboxIssued` (every id the server holds, and every pending call's id, is below `requestId`) and `FramesAnswered` (no frame in the socket or kept for a duplicate carries an id the server still holds; a signal frame's missing id is none). The sequence lemmas `TailFrames` and `AppendFrames` carry `FramesAnswered` across a receive and a send, using `HeadTailProperties` and `AppendProperties` of the library.
- **`PlayerProofs`**: `ExclusiveKillInvariant`. Inductive invariant `PInv`: a process a task holds is running, differs from the player's conductor and from what every other task holds, and the player's conductor is running. `SpawnProcess` picks a process that is not running, so it never picks one of these.

**TLC only.**
- Liveness (`EveryCallSettles`, `EventuallyAllShared`): TLAPS does not handle fairness or ENABLED.
- Every safety property of a passing run is proved. What TLC alone shows is what the violation runs show, and the liveness above.

## Not modelled

- The client's `connect()` and `ping()`, and the legacy client's `create()`, `close()` and `ping()`: they wait on socket events and do not touch the request table. The msgpack encoding itself is abstracted to "may throw".
- The remaining TryCpConductor wrappers (registerDna, listApps, disable/uninstall, agentInfo, dumpState, clone-cell calls, appInfo, downloadDna, saveDna, disconnectClient). Each forwards one request through `callAdminApi` or `callAppApi` and asserts the answer's type; they add no state to the handle. The lifecycle rules they would be subject to are the remote side's.
- The Orchestrator (part_005) and ScenarioApi (part_008): they build players from configuration files and processes; `Player.call` and `initializeApps` forward behind `_conductorGuard`.
- The signalling server, nix files, docs and tests: process I/O, build configuration or documentation.
