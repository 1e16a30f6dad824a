---------------------------- MODULE CmdEventWnd ----------------------------
(***************************************************************************)
(* The event window of the two credential providers (CmdEventWnd.cpp of    *)
(* XCredentialV2/, and the same file of XCredential/, which differs only   *)
(* in the type of the owner).  Each CCmdEventWnd starts a thread that      *)
(* registers a window class, creates a top-most window with a button and   *)
(* pumps its messages.  A press of the button flips m_fConnected and calls *)
(* the owning provider back.                                               *)
(*                                                                         *)
(* Two threads meet here.  LogonUI's thread constructs, initialises, reads *)
(* and deletes the object.  The window's own thread reads and writes its   *)
(* members without a lock and without a reference on it.  A step of the    *)
(* window thread that reads a member of a deleted object touches freed     *)
(* memory: what happens then is undefined, so the step either finds the    *)
(* old contents still there and goes on, or takes the process down.        *)
(***************************************************************************)
EXTENDS Integers, Sequences, FiniteSets

CONSTANTS Windows,    \* the CCmdEventWnd objects a process may construct
          Providers,  \* the provider objects that may own them
          NULL,       \* the null pointer
          MaxInput    \* bound: clicks and close requests waiting at once

ASSUME WindowsAssumption  == IsFiniteSet(Windows)
ASSUME NullAssumption     == NULL \notin Windows /\ NULL \notin Providers
ASSUME MaxInputAssumption == MaxInput \in Nat

VARIABLES
  wobj,          \* the object's memory: unused, alive or deleted
  m_pProvider,   \* the owner, on which the window holds one reference
  m_hWnd,        \* whether member m_hWnd is non-NULL
  m_fConnected,  \* the status the button toggles
  thread,        \* where the window thread is
  screen,        \* the operating system's window: none, hidden or shown
  posted,        \* messages posted to the window, oldest first
  input,         \* input events waiting for the window, oldest first
  registered,    \* whether the process has registered class EventWindow
  fault          \* what took the process down, "none" while it runs

wndVars == <<wobj, m_pProvider, m_hWnd, m_fConnected, thread, screen, posted,
             input, registered, fault>>

(***************************************************************************)
(* The positions of the window thread in _ThreadProc.  "pump" is the call  *)
(* of _ProcessNextMessage, "wait" is inside GetMessage, "modal" inside a   *)
(* modal loop that a message to the window has opened there, "post" is the *)
(* post-processing of a toggle, "notify" and "call" are inside the owner's *)
(* OnConnectStatusChanged.                                                 *)
(***************************************************************************)
Pumping  == {"pump", "wait", "modal", "post", "notify", "call"}
Starting == {"start", "registered", "opened", "created", "failed"}
Positions == {"none", "ended"} \cup Starting \cup Pumping
Faults == {"none", "freedWindow", "freedProvider", "deadCallback", "nullTile"}

WndTypeOK ==
  /\ wobj \in [Windows -> {"unused", "alive", "deleted"}]
  /\ m_pProvider \in [Windows -> Providers \cup {NULL}]
  /\ m_hWnd \in [Windows -> BOOLEAN]
  /\ m_fConnected \in [Windows -> BOOLEAN]
  /\ thread \in [Windows -> Positions]
  /\ screen \in [Windows -> {"none", "hidden", "shown"}]
  /\ posted \in [Windows -> Seq({"toggle", "exit"})]
  /\ input \in [Windows -> Seq({"click", "close"})]
  /\ registered \in BOOLEAN
  /\ fault \in Faults

\* The process starts with no event window and without the window class.
WndInit ==
  /\ wobj = [w \in Windows |-> "unused"]
  /\ m_pProvider = [w \in Windows |-> NULL]
  /\ m_hWnd = [w \in Windows |-> FALSE]
  /\ m_fConnected = [w \in Windows |-> FALSE]
  /\ thread = [w \in Windows |-> "none"]
  /\ screen = [w \in Windows |-> "none"]
  /\ posted = [w \in Windows |-> <<>>]
  /\ input = [w \in Windows |-> <<>>]
  /\ registered = FALSE
  /\ fault = "none"

Running == fault = "none"

-----------------------------------------------------------------------------
(***************************************************************************)
(* What the owner does to the object, on LogonUI's thread.                 *)
(***************************************************************************)

\* new CCmdEventWnd followed by Initialize(p): the constructor clears every
\* member, Initialize stores the owner and tries to start the thread.  A
\* failure of CreateThread is returned, and both callers ignore it.  The
\* owner's AddRef is part of the caller's action.
Construct(w, p) ==
  /\ wobj[w] = "unused"
  /\ wobj' = [wobj EXCEPT ![w] = "alive"]
  /\ m_pProvider' = [m_pProvider EXCEPT ![w] = p]
  /\ \E started \in {"start", "none"} : thread' = [thread EXCEPT ![w] = started]
  /\ UNCHANGED <<m_hWnd, m_fConnected, screen, posted, input, registered, fault>>

\* Mutant: m_hWnd cleared before it is tested.
DestructForgetsExit(w) ==
  /\ wobj[w] = "alive"
  /\ wobj' = [wobj EXCEPT ![w] = "deleted"]
  /\ m_hWnd' = [m_hWnd EXCEPT ![w] = FALSE]
  /\ m_pProvider' = [m_pProvider EXCEPT ![w] = NULL]
  /\ UNCHANGED <<m_fConnected, thread, screen, posted, input, registered, fault>>

\* The destructor: an exit message if m_hWnd says there is a window, the
\* owner's reference given back (the caller's action does the Release).
\* Nothing waits for the thread.
Destruct(w) ==
  /\ wobj[w] = "alive"
  /\ wobj' = [wobj EXCEPT ![w] = "deleted"]
  /\ posted' = [posted EXCEPT ![w] = IF m_hWnd[w] THEN Append(@, "exit") ELSE @]
  /\ m_hWnd' = [m_hWnd EXCEPT ![w] = FALSE]
  /\ m_pProvider' = [m_pProvider EXCEPT ![w] = NULL]
  /\ UNCHANGED <<m_fConnected, thread, screen, input, registered, fault>>

-----------------------------------------------------------------------------
(***************************************************************************)
(* The window thread.                                                      *)
(***************************************************************************)

\* A step that needs a member of the object goes wrong only when the object
\* is deleted, and then not always.
Crash(w) ==
  /\ wobj[w] = "deleted"
  /\ fault' = "freedWindow"

\* Mutant: a class that already exists is taken for success.
MyRegisterClassAgain(w) ==
  /\ Running
  /\ thread[w] = "start"
  /\ registered' = TRUE
  /\ thread' = [thread EXCEPT ![w] = "registered"]
  /\ UNCHANGED <<wobj, m_pProvider, m_hWnd, m_fConnected, screen, posted, input, fault>>

\* _MyRegisterClass.  RegisterClassEx refuses a class the process already
\* has, and nothing ever unregisters it.
MyRegisterClass(w) ==
  /\ Running
  /\ thread[w] = "start"
  /\ registered' = TRUE
  /\ thread' = [thread EXCEPT ![w] = IF registered THEN "failed" ELSE "registered"]
  /\ UNCHANGED <<wobj, m_pProvider, m_hWnd, m_fConnected, screen, posted, input, fault>>

\* _InitInstance: CreateWindowEx makes the window ...
OpenEventWindow(w) ==
  /\ Running
  /\ thread[w] = "registered"
  /\ \/ /\ screen' = [screen EXCEPT ![w] = "hidden"]
        /\ thread' = [thread EXCEPT ![w] = "opened"]
     \/ /\ thread' = [thread EXCEPT ![w] = "failed"]
        /\ UNCHANGED screen
  /\ UNCHANGED <<wobj, m_pProvider, m_hWnd, m_fConnected, posted, input, registered, fault>>

\* ... and its handle is stored in the object.
StoreHandle(w) ==
  /\ Running
  /\ thread[w] = "opened"
  /\ m_hWnd' = [m_hWnd EXCEPT ![w] = TRUE]
  /\ thread' = [thread EXCEPT ![w] = "created"]
  /\ UNCHANGED <<wobj, m_pProvider, m_fConnected, screen, posted, input, registered, fault>>

\* The rest of _InitInstance: the button, ShowWindow and UpdateWindow.  A
\* failure may come before or after the window is shown.
ShowEventWindow(w) ==
  /\ Running
  /\ thread[w] = "created"
  /\ \/ /\ screen' = [screen EXCEPT ![w] = "shown"]
        /\ \E pc \in {"pump", "failed"} : thread' = [thread EXCEPT ![w] = pc]
     \/ /\ thread' = [thread EXCEPT ![w] = "failed"]
        /\ UNCHANGED screen
  /\ UNCHANGED <<wobj, m_pProvider, m_hWnd, m_fConnected, posted, input, registered, fault>>

\* The failure path of _ThreadProc: m_hWnd is cleared and the thread ends,
\* which destroys the window if there is one.
StartFailed(w) ==
  /\ Running
  /\ thread[w] = "failed"
  /\ m_hWnd' = [m_hWnd EXCEPT ![w] = FALSE]
  /\ thread' = [thread EXCEPT ![w] = "ended"]
  /\ screen' = [screen EXCEPT ![w] = "none"]
  /\ UNCHANGED <<wobj, m_pProvider, m_fConnected, posted, input, registered, fault>>

\* _ProcessNextMessage calls GetMessage, which takes m_hWnd from the object.
CallGetMessage(w) ==
  /\ Running
  /\ thread[w] = "pump"
  /\ thread' = [thread EXCEPT ![w] = "wait"]
  /\ UNCHANGED <<wobj, m_pProvider, m_hWnd, m_fConnected, screen, posted, input,
                 registered, fault>>

\* Mutant: the exit message falls through to the end of the switch.
TakePostedNoExit(w) ==
  /\ Running
  /\ thread[w] = "wait"
  /\ posted[w] # <<>>
  /\ posted' = [posted EXCEPT ![w] = Tail(@)]
  /\ thread' = [thread EXCEPT ![w] = IF Head(posted[w]) = "exit" THEN "pump" ELSE "post"]
  /\ UNCHANGED <<wobj, m_pProvider, m_hWnd, m_fConnected, screen, input, registered, fault>>

\* The GetMessage of _ProcessNextMessage returns a posted message: they come
\* before input.  An exit message ends the thread without another look at the
\* object, and m_hWnd keeps its value.
TakePosted(w) ==
  /\ Running
  /\ thread[w] = "wait"
  /\ posted[w] # <<>>
  /\ posted' = [posted EXCEPT ![w] = Tail(@)]
  /\ IF Head(posted[w]) = "exit"
     THEN /\ thread' = [thread EXCEPT ![w] = "ended"]
          /\ screen' = [screen EXCEPT ![w] = "none"]
     ELSE /\ thread' = [thread EXCEPT ![w] = "post"]
          /\ UNCHANGED screen
  /\ UNCHANGED <<wobj, m_pProvider, m_hWnd, m_fConnected, input, registered, fault>>

\* Mutant: the close request is passed on as it came.
AnsweringWithEvent(event) == IF event = "click" THEN "toggle" ELSE event

\* The message _WndProc posts to the window in answer to an input event.
Answering(event) == IF event = "click" THEN "toggle" ELSE "exit"

\* The message loop that is running dispatches an input event to _WndProc: the
\* button posts a toggle, a close request hides the window and posts an exit.
\* Input waits until no posted message is left.
AnswerInput(w) ==
  /\ posted[w] = <<>>
  /\ input[w] # <<>>
  /\ input' = [input EXCEPT ![w] = Tail(@)]
  /\ posted' = [posted EXCEPT ![w] = Append(@, Answering(Head(input[w])))]
  /\ screen' = [screen EXCEPT ![w] = IF Head(input[w]) = "close" THEN "hidden" ELSE @]
  /\ UNCHANGED <<wobj, m_pProvider, m_hWnd, m_fConnected, registered, fault>>

\* The GetMessage of _ProcessNextMessage returns an input event that _WndProc
\* answers with a message of its own.
TakeInput(w) ==
  /\ Running
  /\ thread[w] = "wait"
  /\ AnswerInput(w)
  /\ thread' = [thread EXCEPT ![w] = "pump"]

\* Mutant: the status flips and the owner is not told.
ToggleSilently(w) ==
  /\ Running
  /\ thread[w] = "post"
  /\ m_fConnected' = [m_fConnected EXCEPT ![w] = ~ @]
  /\ thread' = [thread EXCEPT ![w] = "pump"]
  /\ UNCHANGED <<wobj, m_pProvider, m_hWnd, screen, posted, input, registered, fault>>

\* The post-processing of a toggle: the status flips before the owner hears
\* of it.
Toggle(w) ==
  /\ Running
  /\ thread[w] = "post"
  /\ m_fConnected' = [m_fConnected EXCEPT ![w] = ~ @]
  /\ thread' = [thread EXCEPT ![w] = "notify"]
  /\ UNCHANGED <<wobj, m_pProvider, m_hWnd, screen, posted, input, registered, fault>>

-----------------------------------------------------------------------------
(***************************************************************************)
(* The modal loops.  WM_DEVICECHANGE is sent to the window, so GetMessage  *)
(* hands it to _WndProc before it looks at what is posted, and the message *)
(* box _WndProc opens runs a message loop of its own until the user        *)
(* answers it.  DefWindowProc may do the same (a move of the window).      *)
(* The box has no owner, so the event window stays usable meanwhile.  The  *)
(* loop dispatches what is posted to the window to _WndProc, which hands a *)
(* toggle or an exit message to DefWindowProc, where it is lost: only      *)
(* _ProcessNextMessage looks for them.  A loop opened inside the loop      *)
(* changes nothing but who ends it.  No step in here looks at the object.  *)
(***************************************************************************)
EnterModalLoop(w) ==
  /\ Running
  /\ thread[w] = "wait"
  /\ thread' = [thread EXCEPT ![w] = "modal"]
  /\ UNCHANGED <<wobj, m_pProvider, m_hWnd, m_fConnected, screen, posted, input,
                 registered, fault>>

\* The loop takes the oldest posted message, and it is lost.
ModalTakePosted(w) ==
  /\ Running
  /\ thread[w] = "modal"
  /\ posted[w] # <<>>
  /\ posted' = [posted EXCEPT ![w] = Tail(@)]
  /\ UNCHANGED <<wobj, m_pProvider, m_hWnd, m_fConnected, thread, screen, input,
                 registered, fault>>

\* The loop takes an input event, and _WndProc answers it as ever.
ModalTakeInput(w) ==
  /\ Running
  /\ thread[w] = "modal"
  /\ AnswerInput(w)
  /\ UNCHANGED thread

\* The user ends the loop.  The thread is back in GetMessage if that had handed
\* a sent message to _WndProc, in DispatchMessage if it had returned a posted one.
ModalEnds(w) ==
  /\ Running
  /\ thread[w] = "modal"
  /\ \E pc \in {"wait", "pump"} : thread' = [thread EXCEPT ![w] = pc]
  /\ UNCHANGED <<wobj, m_pProvider, m_hWnd, m_fConnected, screen, posted, input,
                 registered, fault>>

\* The thread takes these steps when the user or a device makes it, so they are
\* no part of WindowThread and nobody owes them.
ModalLoop(w) ==
  \/ EnterModalLoop(w)
  \/ ModalTakePosted(w)
  \/ ModalTakeInput(w)
  \/ ModalEnds(w)

-----------------------------------------------------------------------------
\* Any step of the thread outside GetMessage looks into the object; if
\* it is deleted the process may fall instead.
TouchFreedWindow(w) ==
  /\ Running
  /\ thread[w] \in Starting \cup {"pump", "post", "notify"}
  /\ Crash(w)
  /\ UNCHANGED <<wobj, m_pProvider, m_hWnd, m_fConnected, thread, screen, posted,
                 input, registered>>

-----------------------------------------------------------------------------
(***************************************************************************)
(* The owner's OnConnectStatusChanged, as far as the window can tell: it   *)
(* looks at its own state, perhaps calls out, and returns.  The provider   *)
(* modules say what it does in between.                                    *)
(***************************************************************************)
MoveThread(w, from, to) ==
  /\ thread[w] = from
  /\ thread' = [thread EXCEPT ![w] = to]
  /\ UNCHANGED <<wobj, m_pProvider, m_hWnd, m_fConnected, screen, posted, input, registered>>

Callback(w) ==
  /\ Running
  /\ \/ /\ m_pProvider[w] # NULL
        /\ \E to \in {"call", "pump"} : MoveThread(w, "notify", to)
     \/ MoveThread(w, "call", "pump")
  /\ UNCHANGED fault

\* The calling process falls inside the owner: the owner or the callback it
\* uses is gone.
FaultInCallback(w) ==
  /\ Running
  /\ thread[w] \in {"notify", "call"}
  /\ fault' \in {"freedProvider", "deadCallback"}
  /\ UNCHANGED <<wobj, m_pProvider, m_hWnd, m_fConnected, thread, screen, posted,
                 input, registered>>

-----------------------------------------------------------------------------
\* The user clicks the button or asks to close the window.
UserInput(w) ==
  /\ Running
  /\ screen[w] = "shown"
  /\ thread[w] \in Pumping
  /\ Len(input[w]) < MaxInput
  /\ \E event \in {"click", "close"} : input' = [input EXCEPT ![w] = Append(@, event)]
  /\ UNCHANGED <<wobj, m_pProvider, m_hWnd, m_fConnected, thread, screen, posted,
                 registered, fault>>

WindowThread(w) ==
  \/ MyRegisterClass(w)
  \/ OpenEventWindow(w)
  \/ StoreHandle(w)
  \/ ShowEventWindow(w)
  \/ StartFailed(w)
  \/ CallGetMessage(w)
  \/ TakePosted(w)
  \/ TakeInput(w)
  \/ Toggle(w)
  \/ TouchFreedWindow(w)

Create(w, p) == Running /\ Construct(w, p)

Delete(w) == Running /\ Destruct(w)

\* LogonUI may also fall for reasons of the owner, with no window involved.
OwnerFault ==
  /\ Running
  /\ fault' = "nullTile"
  /\ UNCHANGED <<wobj, m_pProvider, m_hWnd, m_fConnected, thread, screen, posted,
                 input, registered>>

\* GetConnectedStatus through a pointer that outlived the object: a tile of
\* the Vista/7 provider keeps one and no reference.
OwnerTouchesFreed(w) ==
  /\ Running
  /\ Crash(w)
  /\ UNCHANGED <<wobj, m_pProvider, m_hWnd, m_fConnected, thread, screen, posted,
                 input, registered>>

WndNext ==
  \/ OwnerFault
  \/ \E w \in Windows :
       \/ \E p \in Providers : Create(w, p)
       \/ Delete(w)
       \/ OwnerTouchesFreed(w)
       \/ WindowThread(w)
       \/ ModalLoop(w)
       \/ Callback(w)
       \/ FaultInCallback(w)
       \/ UserInput(w)

WndSpec == WndInit /\ [][WndNext]_wndVars

\* The scheduler runs every window thread that can run, and the owner's
\* callback returns.
WndFairness ==
  \A w \in Windows : WF_wndVars(WindowThread(w)) /\ WF_wndVars(Callback(w))

WndFairSpec == WndSpec /\ WndFairness

-----------------------------------------------------------------------------
(***************************************************************************)
(* Properties.                                                             *)
(***************************************************************************)

\* A process has at most one event window on the screen, however many
\* objects, providers and threads it has: the class is registered once and
\* RegisterClassEx turns every later thread away (CmdEventWnd.cpp:80-92).
OneEventWindow ==
  \A v, w \in Windows : screen[v] # "none" /\ screen[w] # "none" => v = w

\* An object deleted while its thread is pumping always leaves an exit
\* message behind the messages already there (CmdEventWnd.cpp:22-26); without
\* one the thread would pump for a deleted object for ever.
DeletionTellsPump ==
  [][\A w \in Windows :
       wobj[w] = "alive" /\ wobj'[w] = "deleted" /\ thread[w] \in Pumping
         => posted'[w] = Append(posted[w], "exit")]_wndVars

\* An exit message ends the thread that is pumping, whatever toggles are
\* ahead of it and however often the user clicks meanwhile, unless the thread
\* gets into a modal loop first (CmdEventWnd.cpp:180, :213, :266).  There the
\* message may be lost, and the thread then pumps on until another is posted.
ExitEndsThread ==
  \A w \in Windows :
    (\E i \in DOMAIN posted[w] : posted[w][i] = "exit") /\ thread[w] \in Pumping
      ~> (thread[w] \in {"ended", "modal"} \/ ~ Running)

\* What the destructor says it does ("If we have an active window, we want to
\* post it an exit message", CmdEventWnd.cpp:21): a deleted object's window, if
\* it is on the screen, has been sent an exit message.
DeletedWindowIsTold ==
  \A w \in Windows :
    wobj[w] = "deleted" /\ screen[w] # "none" =>
      \E i \in DOMAIN posted[w] : posted[w][i] = "exit"
=============================================================================
