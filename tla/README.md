# dxlogin in TLA+

dxlogin adds a second factor to Windows logon. It is three DLLs and the library
they share:

- `XCredentialV2/`: a credential provider for Windows 8, 8.1, 10 and 2012;
- `XCredential/`: a credential provider for Vista, 7 and 2008, which wraps the
  system's password provider;
- `XGina/`: a GINA for 2000, XP and 2003, which wraps `msgina.dll`;
- `SrcLib/`: services, locks, logging, codecs and vendored libraries.

This directory holds the models of its stateful and concurrent parts, the TLC
runs that check them and the TLAPS proofs about them. `PROJECT.json` lists every component,
run, finding, hazard and theorem, and maps each definition to its source lines.
The repository has no tests; what a run holds against the code is a comment of
the code, quoted in the finding.

To check a run: `tlc -config <cfg> <module>`; to check the proofs of a module:
`tlapm <module>_proofs.tla`.

## 1. Inventory

### Parts with state and concurrency

| part | source | state | operations | interacts with |
|---|---|---|---|---|
| event window | `CmdEventWnd.cpp` (both providers, same text) | handle, owner, connected flag; a window and its message queue | construct, initialise, delete; register, create, pump, toggle, exit | called by a provider on LogonUI's thread, calls it back on its own thread |
| V2 provider | `CredentialV2_Imp.cpp:127-459` | reference count, scenario, recreate flag, user array, tiles, event window, callback | the methods of `ICredentialProvider` and `SetUserArray`, `OnConnectStatusChanged` | owns an event window; LogonUI enumerates it and is told `CredentialsChanged` |
| V1 provider | `Credential_Imp.cpp:126-568` | the same, with a wrapped provider instead of the user array | the same without `SetUserArray` | owns an event window and the array of V1 tiles |
| V1 tile | `Credential_Imp.cpp:570-1278` | reference count, callback, check box, wrapped credential, raw pointer to the event window | advise, select, field accessors, serialise; `WorkThread` | made by the V1 provider, used by LogonUI and by its own thread |
| V2 tile | `CredentialV2_Imp.cpp:461-1144` | reference count, callback, field strings, check box, combo box, user SID | the same, over its own fields | made by the V2 provider |
| filters | `Credential_Imp.cpp:5-124`, `CredentialV2_Imp.cpp:5-124` | reference count | `Filter` by scenario and class id | LogonUI |
| COM servers | `dllmain.cpp` (both) | module count, class factories | `DllGetClassObject`, `CreateInstance`, `LockServer`, `DllCanUnloadNow` | V1 tiles count themselves; nothing else does |
| GINA | `XGina.cpp`, `dllmain.cpp` | negotiated version, saved functions of the dispatch table, saved dialog procedures | `WlxNegotiate`, `WlxInitialize`, the hooks, 12 forwards | Winlogon's dispatch table, `msgina.dll` |
| service skeleton | `NTService.cpp` | status record, stop event, mutex handle, workers | `ServiceRunning`, `ServiceMain`, `Running`, `SvcCtrlHandler` | the service control manager (SCM), other processes with the same mutex name |
| service control | `ServiceCtrl.cpp` | a handle on the SCM | install, uninstall, start, stop | the SCM, and by it the service skeleton |
| locks, singleton | `Lock.cpp`, `Singleton.h` | critical section; instance pointer | lock, unlock; `Instance`, `DestoryInstance` | any thread |
| log | `Log.cpp` | file, path, level, number of the next file | init, write, roll over | whoever has the object; it takes no lock |
| impersonation, process creation, WOW64 redirection | `ImpersonateLogon.cpp`, `VistaCreateProcess.cpp`, `KWow64FsRedrt.cpp` | tokens, handles, the redirection's old value | logon, impersonate, revert; create; close, open | Windows |

Pure algorithms: packing and unpacking of logon structures (`CreProviderHelp`),
Base64, URL coding, the wrappers of LZMA and 7-Zip. Queries without state:
`SysOS`, `UserCtrl`, `CatchDump`, `NetMsHttp`, `XWin`. Vendored and left aside:
SQLite, JsonCpp, cJSON, TinyXML, Markup, zip, the 7-Zip and LZMA C code, MD5,
SHA-1, SHA-256, the PKCS#11 headers.

### What is hard, and what would be correct

The hazards, each at its line, are in `PROJECT.json`. They come from five
patterns.

1. *A thread that holds no reference on what it uses.* The event window's thread
   works on the window object and the provider, the V1 `WorkThread` on its tile.
   Correct: nothing they use is freed under them, and an object that goes tells
   its thread.
2. *Check, then use, across threads.* `OnConnectStatusChanged` tests the callback
   and calls it while LogonUI's thread may clear it; two threads of a service
   fill one status record. Correct: no call through a callback that was taken
   back, and the SCM hears a legal sequence that ends with STOPPED.
3. *Reference counts kept by hand*, with objects that are born with one reference
   too many and destructors that call `Release` again. Correct: the count is at
   every moment the number of those who hold one, and each object holds exactly
   one reference on what it stores.
4. *Caches with a flag*: the tiles are made again only when a flag says so, the
   status LogonUI was told may be old. Correct: what is served belongs to the
   present, and no change is lost.
5. *Partial failure*: an enumeration that fails in the middle, a worker that does
   not start, a window that cannot be created. Correct: nothing in use is
   released, and a stop is still served.

## 2. Modules

| module | models | used by |
|---|---|---|
| `CmdEventWnd` | the event window and its thread, for an owner that may do anything an owner can | both providers, which EXTEND it and are shown to implement it |
| `XCredentialV2Provider` | the V2 provider with its windows | |
| `TileArray` | abstract: which tiles live, without counts | `XCredentialTile` implements it, `XCredentialProvider` is built on it |
| `XCredentialTile` | V1 tiles, their `WorkThread`s and the provider's array of them | |
| `XCredentialProvider` | the V1 provider with its windows and its tiles | |
| `ServiceLife` | abstract: the states the SCM sees | `NTService` implements it, `ServiceCtrl` drives it |
| `NTService` | any number of service processes that share the mutex name | |
| `ServiceCtrl` | install, uninstall, start, stop and query by any number of clients | `MCLibrary` |
| `ComServer` | class factories, reference counts and module count of both DLLs | `MCLibrary` |
| `XCredentialV2Tile` | one V2 tile with its serialisation | `MCLibrary` |
| `Singleton` | the singleton over its lock, for any number of threads | `MCLibrary` |
| `XGina` | negotiation, hook and dialogs of the GINA | `MCLibrary` |
| `Log` | the log file and the files it goes on in | `MCLibrary` |
| `MC...` | the instances for TLC | the runs |
| `..._proofs` | the theorems | |

In all of them a variable that begins with `m_` is the member of that name. The
other variables are the far side (LogonUI, the SCM, the operating system's
windows) and the positions of threads. An action is one method, or, where
another thread can see the difference, one step of it. A definition whose
comment begins with "Mutant" is no part of a specification: it is a plausible
bug in the definition of the similar name, kept to show that a property would
notice it.

### CmdEventWnd

`wobj` is the object's memory, `thread` the position of `_ThreadProc`, `screen`
the system's window, `posted` and `input` its two queues. The steps of the
thread are split wherever it reads or writes a member that LogonUI's thread
also uses: registering the class, `CreateWindowEx`, the store of `m_hWnd`
(which comes after the window exists), `ShowWindow`, `GetMessage`, the
processing of one message, the flip of `m_fConnected`, and the call of the
owner. From within `GetMessage` the thread may get into a modal loop
(`ModalLoop`): the message box `_WndProc` opens for `WM_DEVICECHANGE`, or one of
`DefWindowProc`. The window stays usable then, but that loop dispatches what is
posted to the window to `_WndProc`, where toggles and exit messages are lost,
since only `_ProcessNextMessage` looks for them. Only the user ends the loop, so
its steps are no part of `WindowThread`, whose fairness is assumed. A thread that touches a deleted object goes on with the old contents or
takes the process down (`fault`), and so does an owner that asks a deleted
window. `WndNext` lets the owner construct and delete at any moment, call back
or fail: it is the *abstract specification* of what an owner may do.

### XCredentialV2Provider

One action per method, for any number of providers in one process; `OpenWindow`
is the part of `SetUsageScenario` that starts a window, `EnumerateCredentials`
the array it makes, with tiles that failed to initialise (NULL) and tiles that
never were initialised (`RawTile`). `held` counts the references the provider
holds on LogonUI's objects, `clients` LogonUI's on the provider. The callback is
read by `CheckCallback` and used by `CallCallback`, which are two actions:
`reg` is what the thread saw in between.

The provider is shown to implement the window's abstract specification: with the
window's variables mapped to themselves, `Spec => WndSpec` is proved, and
`FairSpec => WndFairSpec` is checked (`ImplementsFairEventWindow`).

### TileArray and XCredentialTile

`TileArray` is what the provider promises of its tiles: a tile lives while the
array or LogonUI can reach it, and for ever when a failed enumeration has lost
it; the array is the whole of one enumeration.

`XCredentialTile` does it with counts. `cred`, `m_cRef` and `refs` are a tile's
memory, count and LogonUI's share in it. `GetCredentialCount` is one action with
its clean-up of the old array and its failure paths: the wrapped provider fails
before it has told the number (the count stays), or at the n-th tile (n tiles
were made, the array is deleted, the tiles are `lost`). `watch` holds the
`WorkThread`s: one per `SetSelected`, asleep, then in `SetCheckboxValue`, in two
steps because the call back to LogonUI comes after the check. The refinement
mapping reads the abstract `taken` off the counts (`ImplementsTileArray`).

### XCredentialProvider

The V1 provider composes the two: it EXTENDS `CmdEventWnd`, whose windows
`SetUsageScenario` starts, and instantiates `TileArray`, each of whose tiles
keeps a raw pointer to the window of its scenario (`tileWin`). The failure path
of `SetUsageScenario` is an action of its own, `FailUsageScenario`, because the
window's thread runs between the two: the wrapped provider is dropped and the
window deleted, at whatever point its thread has got to, while tiles of an
earlier scenario may still point at it. `SetSelected` asks the window through
that pointer.

### ServiceLife and NTService

`ServiceLife` is four states per process and the fact that one at a time gets as
far as RUNNING. `NTService` implements it, by the mutex. `main` and `index` are
the service thread in `Running`, `handler` the control handler on the main
thread. A report is two steps, the filling of `m_SvrStatus` and the call of
`SetServiceStatus`, wherever the two threads can meet, and the handler's second
report reads, writes back and sends. A process can die at any step; its handles
and threads go with it, and it can be started again. The abstract state is read
off the process and its threads (`ImplementsServiceLife`).

### The modules of the library run

`ServiceCtrl` has one step per call to the service manager, so that the calls of
two clients interleave; `InstallService` runs through the steps of
`UnInstallService`, which asks `IsInstalled` again and does not wait for the stop
it requests. The manager is external: a deleted entry is only marked, and goes
with its last handle once the service, which is that of `ServiceLife`, has
stopped.

`ComServer` has `BornWith`, the count each constructor leaves, since no two
classes count alike, and one destructor rule, the extra `Release`. Asked for
another interface, `CreateInstance` of the factories returns a variable that it
has not set (`XCredential/dllmain.cpp:82`, `XCredentialV2/dllmain.cpp:67`);
nothing is made then.

`XCredentialV2Tile` has one action for every step of `GetSerialization` that may
fail, on both paths: the local account, packed by the helpers of
`CreProviderHelp`, and any other, packed by Windows. For a local account the
source packs the constant `L"xxxxxx"` where the typed password would be expected
(`CredentialV2_Imp.cpp:966`), which is why the length of the packed password does
not depend on what was typed.

`Singleton` has every read and write of the pointer as a step. `XGina` has the
stack of dialogs MSGINA opens above each other, and the one static variable per
kind in which the hook keeps their procedures. `Log` writes a path as what is left
of its text when all numbers are taken off its end, followed by these numbers, so
that a path the log makes and a path a caller gives are one when their texts are
(`"x_1"` is `<<x, 1>>` from either). The numbers start again in another object and
in another process, so the files are those of one.

## 3. Runs

| run | instance | shows |
|---|---|---|
| `event_window` | 2 windows, 1 waiting input (13 582 states) | `OneEventWindow`, `DeletionTellsPump`, `ExitEndsThread` |
| `provider_v2` | 2 providers, 2 windows, 2 scenarios of which 1 is supported, 1 callback, 0 or 1 users (2 688 304) | `NoFreedMemory`, `HeldExactly`, `TilesAreCurrent`, `RefAccounting`, `NoLostChange` |
| `provider_v2_progress` | 1 provider, 2 windows, 2 callbacks, 2 references (314 575) | `ImplementsFairEventWindow`, `ChangeReachesLogonUI` |
| `provider_v1` | 1 provider, 2 windows, 2 tiles, arrays of up to 1, 2 references, symmetric tiles and windows (1 501 732) | `ReferencesBalance`, `ReadyHasWindow`, `ServedTilesAreCurrent`, `ProviderOutlivesCallback`, `ImplementsEventWindow` |
| `tiles_v1` | 2 tiles, 2 threads, 2 callbacks, 1 reference (169 863) | `TileAccounting`, `EventsHeldOnce`, `WholeArray`, `ImplementsTileArray`, `SelectedIsChecked` |
| `service` | 2 processes, 2 workers each (15 939) | `SingleInstance`, `ToldWorkersEnd`, `LegalTransitions`, `ImplementsServiceLife`, `StopIsServed` |
| `library` | one of six components in each behaviour (400 250), see below | `HandlesReturned`, `AloneSettles`; `TileKeepsModule`, `OwnedObjectsLive`; `FinishedIsWhole`, `CopiesFreed`; `OneInstance`; `HooksAreTransparent`; `GoesOnInNewFile` |
| `dead_callback` | violation of `NoDeadCallback` | the callback is called after `UnAdvise` |
| `null_tile` | violation of `NoNullTile` | a NULL slot is called through |
| `deleted_window` | violation of `DeletedWindowIsTold` | a window deleted before it has stored its handle stays on the screen |
| `stale_events` | violation of `NoStaleEvents` | a tile uses its callback after `UnAdvise` |
| `stopped_is_reported` | violation of `StoppedIsReported` | the SCM is never told STOPPED |

Each passing run also checks the type invariants (`provider_v2_progress`, which
has the module of `provider_v2`, leaves them to that run), and every property of
a passing run has a mutant that breaks it.

*The library run.* `MCLibrary` puts six components that share no state into one
specification; the variable `part` says which of them a behaviour is about, and
the others stay where they are, so the states are added and not multiplied. Its
instances: 2 clients of one service; 3 objects with up to 2 references and 1
lock; strings of 0, 1, 32 767 and 32 768 characters; 3 threads and up to 3
instances; one template of each of the five kinds of dialog and one of no kind, 2
dialogs at once, a table up to one version newer than the GINA knows; 2 log paths,
`"x"` and `"x_1"`, a file that is full with its head and one line (`MaxSize`), and
at most 4 lines to a file and 4 further files.

*Bounds.* Two windows are one more than the class registration lets open, so
that the loser's path is taken; two V2 providers compete for it, and two
scenarios of one V1 provider. Two tiles make an
array whose enumeration can fail after the first, and the second array meets
tiles of the first that LogonUI still holds; objects are not reused, so the
number of tiles bounds the number of enumerations. Two callbacks are what tells
"the current one" from "one of before". Two threads let a selection come while
an older one sleeps. Two processes are what a mutex needs; two workers let one
fail, or be passed over, before one that must be waited for. Three threads are
two that race to make an instance while a third destroys it; three objects a
factory, what it makes, and the tile of that. The two longest strings are the
last whose bytes fit a USHORT and the first whose bytes do not. Two dialogs, one above
the other, are what the static variables are about. A file of up to four lines
fills, is opened again under its first name and fills again. `MaxInput`,
`MaxRefs`, `MaxClients`, `MaxTiles`, `MaxOwners`, `MaxLocks`, `MaxInstances`,
`MaxDialogs`, `MaxLength` and `MaxIndex` cap counters and are named in the
guards. The proofs below are for every value of these constants.

*Deadlock* is checked in `NTService`, where a process can always be started or
die. The other runs switch the check off: a process that has taken a fault, or
has used up its objects, a dropped tile and an unloaded DLL stop there.

*Fairness.* The system schedules a thread that can run (window threads,
`WorkThread`s, service thread, handler). A callback returns, because
`CredentialsChanged` only posts to LogonUI. LogonUI acts on `CredentialsChanged`
by asking for the count again, which is what the call is for. A worker that was
told to end does; `Running` waits for it without limit and nothing else could
end the wait. Nothing is assumed of the user, who need not answer a message box,
of LogonUI's other calls, of the SCM, nor of a worker that was not told. The library run and `provider_v1` state
no fairness and check safety only.

## 4. What the environment is assumed to do

- LogonUI calls one provider, and one tile, from one thread, holds a reference
  while it does, alternates `Advise` and `UnAdvise`, and unadvises before its
  last `Release`. It calls `SetUserArray` after each accepted scenario and
  before it enumerates (the comment at `CredentialV2_Imp.cpp:375` says when).
  It advises a V1 tile before it selects it. It may repeat `SetUsageScenario`. It
  looks at a serialisation only when the response says finished.
- `new` does not fail; `CreateThread`, `CreateWindowEx` and the wrapped provider
  may. The class registration fails only when the class exists. Of what
  `ShowWindow` returns nothing is assumed.
- Members that no constructor sets (`m_cpus`, the recreate flag, the log's level)
  have any value.
- Posted messages are taken before input, as `GetMessage` documents; a message
  that is sent, as `WM_DEVICECHANGE` is, is handled before either. The window
  thread handles sent messages inside `GetMessage` and `DispatchMessage` only: the
  calls it makes while it starts and the owner's callback are taken not to
  dispatch any. A modal loop inside a modal loop is the same loop.
- `GetCount` of the user array does not fail: its result is ignored
  (`CredentialV2_Imp.cpp:426`), and a failure would keep the number of before.
- LogonUI makes no call on a V2 tile that was never initialised (`RawTile` of the
  provider); `XCredentialV2Tile` begins to serve after `Initialize`. The source would
  serialise such a tile by the path of an account that is not local.
- The service manager denies no client access to an entry it has.
- A process has one log object to a path (`CXLog` has no user in the repository), and
  two paths with different texts are two files.
- To the V2 provider a tile is a value: what it was made from. Its own members
  and its serialisation are in `XCredentialV2Tile`, its count in `ComServer`.
- The SCM sends STOP only to a service that has reported RUNNING, and does not
  listen after STOPPED. `OpenEvent` finds a worker's event from when the worker
  has made it until it ends. Workers of different processes have different
  event names.
- The users of a class factory undo each `LockServer(TRUE)` once, and COM makes no
  other call into a DLL between `DllCanUnloadNow` and unloading it.
- One thread destroys the singleton; the source does not say so, and with two the
  unlocked test and delete would both succeed.
- Winlogon calls `WlxInitialize` once. MSGINA settles on at most the version it is
  offered, opens and closes dialogs as a stack, and has of one kind of dialog, whose
  templates are those of different versions, one open at a time.
- Left out because nothing observable depends on it: the text of windows and logs,
  check points, wait hints, accepted controls, the four `SetField...` calls one
  by one, the combo box of a tile, and in `ServiceCtrl` a query that fails.

## 5. Proofs

The theorems are for every number of windows, providers, tiles, threads,
callbacks, processes, workers, clients, objects and dialogs. Assumed are only the
named `ASSUME`s: the sets are finite where something is counted, NULL is none of
the objects, bounds are natural numbers, and `MaxChars` characters fit a USHORT.

| module | theorems | inductive invariant |
|---|---|---|
| `CmdEventWnd_proofs` | `WndTypeCorrect`, `OneWindow`, `PumpIsTold`, `ToldThreadGoesOn`, `ExitComesNearer` | with `OneEventWindow`: a thread past the registration, or a window, belongs to one winner, and the class is registered; with `DeletionTellsPump`: a pumping thread of a live object has stored its handle; `Owned` |
| `XCredentialV2Provider_proofs` | `TypeCorrect`, `ReferencesCorrect`, `NothingIsFreed`, `HoldsExactly`, `NothingLost`, `TilesServedArePresent`, `ProviderImplementsWindow`, `OneWindowPerProcess`, `UntoldIsOnItsWay`, `TellingNeverTurnsBack` | `IInv`; with `TilesAreCurrent`: `ScenarioRecreates`; `AdvisedIsHeld` |
| `XCredentialProvider_proofs` | `ProviderTypeCorrect`, `BalanceCorrect`, `ReadyIsServed`, `TilesServedAreCurrent`, `CallbackOutlived`, `V1ImplementsWindow`, `V1OneWindow`, `V1TellsPump`, `V1ExitComesNearer`, `V1ImplementsArray`, `ArrayKeepsReachable`, `V1KeepsReachable` | `IInv`; of `TileArray`: `ArrayInv` |
| `XCredentialTile_proofs` | `TileTypeCorrect`, `TilesAccounted`, `EventsCorrect`, `ArrayCorrect`, `TilesImplementArray`, `TilesKeepReachable`, `AdvisedCorrect`, `SleeperFindsCallback`, `SelectedGetsTicked`, `FaultsNeedChange` | `IInv`; `AdvisedIsStored`, `SleeperIsServed` |
| `NTService_proofs` | `NTTypeCorrect`, `OneInstance`, `ToldAreWaitedFor`, `StatusIsLegal`, `ServiceImplementsLife`, `LifeServesOne`, `OneServiceServes`, `AStopIsNeverStuck`, `AStopGetsOn` | `IInv`; `AllWaiting` |
| `ComServer_proofs` | `ComTypeCorrect`, `TileKeepsModuleHolds`, `OwnedObjectsLiveHolds`, `CountsExactHolds`, `LastUserFreesHolds` | `ModuleCounted`, `OwnersCounted`, `CountsExact` |
| `XCredentialV2Tile_proofs` | `FinishedIsWholeHolds`, `CopiesFreedHolds`, `Tile2TypeCorrect` | `WayKept`, `CopiesOfStep`, `BufferOfStep`, `AdviseCounted` |
| `Library_proofs` | `OneInstanceHolds`, `HandlesReturnedHolds`, `AloneSettlesHolds`, `GoesOnInNewFileHolds`, `HooksAreTransparentHolds`, `SectionIsExclusiveHolds`, `NothingStaysMarkedHolds`, `ServiceCtrlDrivesLife`, `LibraryRunsComponents`, `LibraryTypeCorrect` and the types of each component | `SingleInv`; `HeldWhileHolding`; `AloneInv`; `NumbersCounted`; `WayToHook`, `DialogsServed` |

*The V2 provider.* `NoFreedMemory` says nothing of reference counts, and the window
thread takes none. It holds because the provider can never die, and that needs
`RefAccounting` (the reference that `CreateInstance` forgets is always there),
`NothingDies` (so no window is deleted either), `ReadyHasAll` (LogonUI
enumerates only a provider that has a window, a scenario and users) and `Linked`
(the current window points back at its provider). With these the step of every
method is a few cases. `TilesAreCurrent` needs in addition that the flag is still
up when the users arrive (`ScenarioRecreates`). `ProviderImplementsWindow` shows
each step of the provider
to be a step of the window's specification or to leave the window alone;
`OneWindowPerProcess` follows from it and from the window's own theorem.

*The V1 provider.* Its windows do get deleted, so what holds its invariant
together is where: `ScenarioLeaves` says what each place of LogonUI's protocol
leaves behind, `WindowsLinked` that the current window is alive and points back
while any other that points is at least alive, and `ServedTiles` that the
array of an answered scenario holds live tiles that ask its window. `ProviderStays`
is again the forgotten reference.

*The tile.* `TileAccounting` is not inductive: a tile that an enumeration has
lost must be alive and outside the array, or the next clean-up would take a
reference it does not have (`Counted`); and a tile that is not alive must store
no callback, or a new tile could begin with one (`Holding`). The lemma
`CleanedUp` is what `CleanupEvents` does to a set of tiles, and is used by the
enumeration and by `Release`.

*The service.* `SingleInstance` becomes inductive with `Own`, which is to have got
past the mutex or to be at work, and with `Holding`: who owns also has a handle.
The order of states rests on `Phase`, which says for each position of the
service thread what the SCM has heard, what the shared record holds and where
the handler may be.

*The library.* `ModuleCounted` bounds the module count from below by the locks, and
by one more once the first generation has made a tile; `OwnersCounted` has every live object's
count at least its users' references. In the tile's serialisation each step
determines which strings are out and what the buffer is. In the singleton
`SectionOwned` says who may be in the section, `PointerTold` what each place knows
of the pointer. `AloneSettles` rests on `CallOfStep` (which call a step belongs to),
`OthersIdle`, and `MarkedIsHeld` (a marked entry of a stopped service is there for
an open handle only). In the log the last number of every file is at
most the counter, unless its whole path is one callers give, so that the next one
is new or a caller's. In the GINA the open dialogs are of
different kinds, so none writes the variable of another.

*What specifications promise each other.* A theorem about an abstract
specification holds of everything that implements it, and the implementations
are theorems too. `TileArray` keeps what can be reached alive
(`ArrayKeepsReachable`; a lost tile has to be outside the array); the tiles with
their counts and the whole V1 provider implement it, and so keep it as well.
`ServiceLife` lets one process serve at a time (`LifeServesOne`), which
`NTService` inherits; the clients of `ServiceCtrl` are shown to do nothing to a
service but what `ServiceLife` allows (`ServiceCtrlDrivesLife`), so that the two
sides of the service manager agree on one description. The V1 provider inherits
from `CmdEventWnd` what is proved of exit messages, which matters there because it does delete
windows; the V2 provider never does. A behaviour of the library run is one of
each of its six components (`LibraryRunsComponents`), so the invariants proved of
`SvcSpec`, `ComSpec` and the others are those the run checks.

*Reference counts.* `CountsExact` says of every living object what its count is:
its users' references, and what the constructor took too many. From it,
`LastUserFrees`: the last user's `Release` frees an object whose constructor took
nothing, no other step frees anything, and an object whose constructor did is
never freed.

*What carries the liveness properties.* Each of the four needs fairness, which is
out of TLAPS' reach. What can be proved is all that is left of the argument:
that a step which is owed has nothing to wait for, and that each such step brings
the end nearer while no other takes it further away. For the exit message both
have one exception, which the theorems name: a modal loop waits for the user, its
beginning is a step back, and it takes an exit message away when that is the
oldest message (`LostInModalLoop`). `ExitEndsThread` leaves off at the same place.

| liveness property | nothing to wait for | nearer with each step | measure |
|---|---|---|---|
| `ExitEndsThread` | `ToldThreadGoesOn` | `ExitComesNearer` | `Distance`: five for each message ahead, and the thread's place |
| `ChangeReachesLogonUI` | `UntoldIsOnItsWay` | `TellingNeverTurnsBack` | `Stage`: check, call, enumerate |
| `SelectedIsChecked` | `SleeperFindsCallback` | `SelectedGetsTicked` | one step |
| `StopIsServed` | `AStopIsNeverStuck` | `AStopGetsOn` | `StopLeft`: the steps left to each worker |

These found no fault, but show what the liveness rests on. The change of status
needs that `UnAdvise` and the last `Release` come in LogonUI's order
(`AdvisedIsHeld`); the tick of a tile rests on `UnAdvise` never clearing the
callback (`SleeperIsServed`), the same omission that makes a late call go to a
callback taken back.

### Model-checked only

- Liveness: `ExitEndsThread`, `ChangeReachesLogonUI`, `SelectedIsChecked`,
  `StopIsServed` themselves, and the fair half of the window's refinement
  (`ImplementsFairEventWindow`). TLAPS does not reason about ENABLED, and so not
  about fairness. Everything else the runs check is proved.
- Nothing here is recursive.

## 6. What the checks found

The five findings in `PROJECT.json` are disagreements between a comment and what
the code does; each has a run whose counterexample shows the steps. Two of them
are about the same idea on the two sides of the interface: a callback used after
LogonUI has taken it back, in the V2 provider by a race of a few instructions,
in the V1 tile because `UnAdvise` does nothing with it for up to three seconds.
The counterexample of `deleted_window` is one the V1 provider can take: its
`FailUsageScenario` is the deletion that comes too early.

One disagreement has no run of its own. A close request hides the window and
posts an exit message, "telling the thread to exit" (`CmdEventWnd.cpp:218-219`), and
the destructor posts one too; a message box of `WM_DEVICECHANGE` that is open, or opens
before the message is taken, loses it. The thread then goes on pumping a window that
nobody can see, or whose object is gone. That is why `ExitEndsThread` has the
exception it has: without it TLC answers with `EnterModalLoop`, `ModalTakeInput` and
`ModalTakePosted`. The log has a smaller one: after `InitLog("x_1")` and `InitLog("x")` a full
file goes on in `x_1`, which has been written before; that is the only way in which
`GoesOnInNewFile` lets a file be taken twice.

Three results are as instructive though nothing fails. The V2 provider is
safe from its own window thread only because every provider leaks one reference
(`NothingIsFreed` rests on it): a fix of the leak alone would expose the thread.
The second event window of a process never opens, because the class stays
registered, so the status that `GetCredentialCount` reads after a second
`SetUsageScenario` is that of a window nobody can click. And the objects users
own stay alive although no two classes count alike, because every deviation but
one errs on the side of too many references; the one that starts from 0,
`CXFilter`, adds the missing one itself.

## 7. Not modelled

What a component's own note in `PROJECT.json` says in detail, in short:

- *Pure functions and tables*: the filters, the field table, URL coding, Base64.
  They have no state, no step can come between two of theirs, and a table of test
  cases reaches what a model would.
- *Sequential wrappers of Windows or of a vendored codec*, without state between
  calls: process creation, redirection, impersonation, the LZMA and 7-Zip
  wrappers, the HTTP client, system information, dumps. A model of one would be a
  chain of "may fail" whose properties restate its early returns.
- *Methods that hand on or answer constants*: `SetSerialization` and the field
  descriptors of both providers, the other exports of the GINA, most accessors of
  the tiles. This is why those components are marked partly modelled.
- *Hazards without a property* are in `PROJECT.json` with their reason: handles
  that Windows reuses, the keyboard focus, the default tile. One more is not
  listed there: `SetWnd` (`XGina/dllmain.cpp:52`) makes a font for each message and
  nothing deletes it, so there is no path on which it could be checked.
- *Vendored code*: SQLite, JsonCpp, cJSON, TinyXML, Markup, zip, 7-Zip, LZMA, the
  hashes and the PKCS#11 headers. They are some 95 % of the lines under `src/`
  (about 11 000 of 219 000 lines are the program's own), so the share of all lines
  that the map covers stays small whatever is modelled; of the program's own code
  it covers the parts that keep state or run concurrently.
