------------------------- MODULE CmdEventWnd_proofs -------------------------
(***************************************************************************)
(* Theorems about CmdEventWnd, for any number of windows, providers and    *)
(* pending events.  The providers' proofs pass them on to their windows.   *)
(***************************************************************************)
EXTENDS CmdEventWnd, SequenceTheorems, TLAPS

\* What a loop answers to input keeps its type.
LEMMA AnswerTyped ==
  ASSUME WndTypeOK, NEW w \in Windows, AnswerInput(w), UNCHANGED thread \/ TakeInput(w)
  PROVE  WndTypeOK'
<1>1. /\ Tail(input[w]) \in Seq({"click", "close"})
      /\ Append(posted[w], Answering(Head(input[w]))) \in Seq({"toggle", "exit"})
  BY DEF AnswerInput, Answering, WndTypeOK
<1>2. /\ input' \in [Windows -> Seq({"click", "close"})]
      /\ posted' \in [Windows -> Seq({"toggle", "exit"})]
  BY <1>1 DEF AnswerInput, WndTypeOK
<1> QED
  BY <1>2 DEF AnswerInput, TakeInput, WndTypeOK, Positions, Starting, Pumping

\* Every step of the window preserves the types of its variables.
LEMMA WndTypeOKStep == WndTypeOK /\ [WndNext]_wndVars => WndTypeOK'
<1> SUFFICES ASSUME WndTypeOK, [WndNext]_wndVars PROVE WndTypeOK'
  OBVIOUS
<1> USE DEF WndTypeOK, Positions, Starting, Pumping, Faults
<1>1. CASE UNCHANGED wndVars
  BY <1>1 DEF wndVars
<1>2. CASE OwnerFault
  BY <1>2 DEF OwnerFault
<1>3. ASSUME NEW w \in Windows, NEW p \in Providers, Create(w, p)
      PROVE  WndTypeOK'
  BY <1>3 DEF Create, Construct
<1>4. ASSUME NEW w \in Windows, Delete(w)
      PROVE  WndTypeOK'
  <2>1. Append(posted[w], "exit") \in Seq({"toggle", "exit"})
    BY <1>4
  <2>2. posted' \in [Windows -> Seq({"toggle", "exit"})]
    BY <1>4, <2>1 DEF Delete, Destruct
  <2> QED
    BY <1>4, <2>2 DEF Delete, Destruct
<1>5. ASSUME NEW w \in Windows, WindowThread(w)
      PROVE  WndTypeOK'
  <2>1. CASE MyRegisterClass(w)
    BY <2>1 DEF MyRegisterClass
  <2>2. CASE OpenEventWindow(w)
    BY <2>2 DEF OpenEventWindow
  <2>3. CASE StoreHandle(w)
    BY <2>3 DEF StoreHandle
  <2>4. CASE ShowEventWindow(w)
    BY <2>4 DEF ShowEventWindow
  <2>5. CASE StartFailed(w)
    BY <2>5 DEF StartFailed
  <2>6. CASE CallGetMessage(w)
    BY <2>6 DEF CallGetMessage
  <2>7. CASE TakePosted(w)
    <3>1. Tail(posted[w]) \in Seq({"toggle", "exit"})
      BY <2>7 DEF TakePosted
    <3>2. posted' \in [Windows -> Seq({"toggle", "exit"})]
      BY <2>7, <3>1 DEF TakePosted
    <3> QED
      BY <2>7, <3>2 DEF TakePosted
  <2>8. CASE TakeInput(w)
    BY <2>8, AnswerTyped DEF TakeInput
  <2>9. CASE Toggle(w)
    BY <2>9 DEF Toggle
  <2>10. CASE TouchFreedWindow(w)
    BY <2>10 DEF TouchFreedWindow, Crash
  <2> QED
    BY <1>5, <2>1, <2>2, <2>3, <2>4, <2>5, <2>6, <2>7, <2>8, <2>9, <2>10
    DEF WindowThread
<1>6. ASSUME NEW w \in Windows, Callback(w)
      PROVE  WndTypeOK'
  BY <1>6 DEF Callback, MoveThread
<1>7. ASSUME NEW w \in Windows, FaultInCallback(w)
      PROVE  WndTypeOK'
  BY <1>7 DEF FaultInCallback
<1>8. ASSUME NEW w \in Windows, UserInput(w)
      PROVE  WndTypeOK'
  <2>1. \A e \in {"click", "close"} : Append(input[w], e) \in Seq({"click", "close"})
    OBVIOUS
  <2>2. input' \in [Windows -> Seq({"click", "close"})]
    BY <1>8, <2>1 DEF UserInput
  <2> QED
    BY <1>8, <2>2 DEF UserInput
<1>9. ASSUME NEW w \in Windows, OwnerTouchesFreed(w)
      PROVE  WndTypeOK'
  BY <1>9 DEF OwnerTouchesFreed, Crash
<1>10. ASSUME NEW w \in Windows, ModalLoop(w)
       PROVE  WndTypeOK'
  <2>1. CASE EnterModalLoop(w) \/ ModalEnds(w)
    BY <2>1 DEF EnterModalLoop, ModalEnds
  <2>2. CASE ModalTakePosted(w)
    <3>1. Tail(posted[w]) \in Seq({"toggle", "exit"})
      BY <2>2 DEF ModalTakePosted
    <3>2. posted' \in [Windows -> Seq({"toggle", "exit"})]
      BY <2>2, <3>1 DEF ModalTakePosted
    <3> QED
      BY <2>2, <3>2 DEF ModalTakePosted
  <2>3. CASE ModalTakeInput(w)
    BY <2>3, AnswerTyped DEF ModalTakeInput
  <2> QED
    BY <1>10, <2>1, <2>2, <2>3 DEF ModalLoop
<1> QED
  BY <1>1, <1>2, <1>3, <1>4, <1>5, <1>6, <1>7, <1>8, <1>9, <1>10 DEF WndNext

\* The variables of the window keep their types.
THEOREM WndTypeCorrect == WndSpec => []WndTypeOK
<1>1. WndInit => WndTypeOK
  <2>1. <<>> \in Seq({"toggle", "exit"}) /\ <<>> \in Seq({"click", "close"})
    BY EmptySeq
  <2> QED
    BY <2>1 DEF WndInit, WndTypeOK, Positions, Starting, Pumping, Faults
<1> QED
  BY <1>1, WndTypeOKStep, PTL DEF WndSpec

-----------------------------------------------------------------------------
\* A modal loop touches nothing of the object, and the thread is in GetMessage
\* before it and in the pump's loop after it.
LEMMA ModalLoopKeeps ==
  ASSUME NEW w, ModalLoop(w)
  PROVE  /\ UNCHANGED <<wobj, m_pProvider, m_hWnd, m_fConnected, registered, fault>>
         /\ thread[w] \in {"wait", "modal"}
         /\ \/ UNCHANGED thread
            \/ \E pc \in {"wait", "modal", "pump"} : thread' = [thread EXCEPT ![w] = pc]
<1>1. CASE EnterModalLoop(w) \/ ModalEnds(w)
  BY <1>1 DEF EnterModalLoop, ModalEnds
<1>2. CASE ModalTakePosted(w) \/ ModalTakeInput(w)
  BY <1>2 DEF ModalTakePosted, ModalTakeInput, AnswerInput
<1> QED
  BY <1>1, <1>2 DEF ModalLoop

-----------------------------------------------------------------------------
(***************************************************************************)
(* One event window.  RegisterClassEx lets one thread of the process       *)
(* through; everything on the screen belongs to that thread.               *)
(***************************************************************************)
Winner(w) ==
  \/ thread[w] \in {"registered", "opened", "created"} \cup Pumping
  \/ screen[w] # "none"

OneWinner ==
  /\ \A v, w \in Windows : Winner(v) /\ Winner(w) => v = w
  /\ \A w \in Windows : Winner(w) => registered

\* No step makes a second thread of the process a winner.
LEMMA OneWinnerStep == WndTypeOK /\ OneWinner /\ [WndNext]_wndVars => OneWinner'
<1> SUFFICES ASSUME WndTypeOK, OneWinner, [WndNext]_wndVars PROVE OneWinner'
  OBVIOUS
<1> USE DEF WndTypeOK, OneWinner, Winner, Pumping
\* It is enough that no thread but one that finds the class unregistered
\* becomes a winner.
<1>1. ASSUME registered' = registered,
             \A w \in Windows : Winner(w)' => Winner(w)
      PROVE  OneWinner'
  BY <1>1
<1>2. CASE UNCHANGED wndVars
  BY <1>2 DEF wndVars
<1>3. CASE OwnerFault
  BY <1>3 DEF OwnerFault
<1>4. ASSUME NEW w \in Windows, NEW p \in Providers, Create(w, p)
      PROVE  OneWinner'
  BY <1>1, <1>4 DEF Create, Construct
<1>5. ASSUME NEW w \in Windows, Delete(w)
      PROVE  OneWinner'
  BY <1>1, <1>5 DEF Delete, Destruct
<1>6. ASSUME NEW w \in Windows, WindowThread(w)
      PROVE  OneWinner'
  <2>1. CASE MyRegisterClass(w)
    <3>1. CASE registered
      BY <2>1, <3>1, <1>1 DEF MyRegisterClass
    <3>2. CASE ~ registered
      <4>1. \A v \in Windows : Winner(v)' => v = w
        BY <2>1, <3>2 DEF MyRegisterClass
      <4> QED
        BY <2>1, <4>1 DEF MyRegisterClass
    <3> QED
      BY <3>1, <3>2
  <2>2. CASE OpenEventWindow(w)
    BY <1>1, <2>2 DEF OpenEventWindow
  <2>3. CASE StoreHandle(w)
    BY <1>1, <2>3 DEF StoreHandle
  <2>4. CASE ShowEventWindow(w)
    BY <1>1, <2>4 DEF ShowEventWindow
  <2>5. CASE StartFailed(w)
    BY <1>1, <2>5 DEF StartFailed
  <2>6. CASE CallGetMessage(w)
    BY <1>1, <2>6 DEF CallGetMessage
  <2>7. CASE TakePosted(w)
    BY <1>1, <2>7 DEF TakePosted
  <2>8. CASE TakeInput(w)
    BY <1>1, <2>8 DEF TakeInput, AnswerInput
  <2>9. CASE Toggle(w)
    BY <1>1, <2>9 DEF Toggle
  <2>10. CASE TouchFreedWindow(w)
    BY <1>1, <2>10 DEF TouchFreedWindow
  <2> QED
    BY <1>6, <2>1, <2>2, <2>3, <2>4, <2>5, <2>6, <2>7, <2>8, <2>9, <2>10
    DEF WindowThread
<1>7. ASSUME NEW w \in Windows, Callback(w)
      PROVE  OneWinner'
  BY <1>1, <1>7 DEF Callback, MoveThread
<1>8. ASSUME NEW w \in Windows, FaultInCallback(w)
      PROVE  OneWinner'
  BY <1>1, <1>8 DEF FaultInCallback
<1>9. ASSUME NEW w \in Windows, UserInput(w)
      PROVE  OneWinner'
  BY <1>1, <1>9 DEF UserInput
<1>10. ASSUME NEW w \in Windows, OwnerTouchesFreed(w)
       PROVE  OneWinner'
  BY <1>1, <1>10 DEF OwnerTouchesFreed
<1>11. ASSUME NEW w \in Windows, ModalLoop(w)
       PROVE  OneWinner'
  <2>1. CASE EnterModalLoop(w) \/ ModalTakePosted(w) \/ ModalEnds(w)
    BY <1>1, <2>1 DEF EnterModalLoop, ModalTakePosted, ModalEnds
  <2>2. CASE ModalTakeInput(w)
    BY <1>1, <2>2 DEF ModalTakeInput, AnswerInput
  <2> QED
    BY <1>11, <2>1, <2>2 DEF ModalLoop
<1> QED
  BY <1>2, <1>3, <1>4, <1>5, <1>6, <1>7, <1>8, <1>9, <1>10, <1>11 DEF WndNext

\* However many windows are constructed, one at most is on the screen.
THEOREM OneWindow == WndSpec => []OneEventWindow
<1>1. WndInit => OneWinner
  BY DEF WndInit, OneWinner, Winner, Pumping
<1>2. OneWinner => OneEventWindow
  BY DEF OneWinner, Winner, OneEventWindow
<1> QED
  BY <1>1, <1>2, OneWinnerStep, WndTypeCorrect, PTL DEF WndSpec

-----------------------------------------------------------------------------
(***************************************************************************)
(* The exit message.  A live object whose thread has got as far as the     *)
(* pump has stored its handle, so the destructor's test of m_hWnd sees it. *)
(***************************************************************************)
HandleStored ==
  \A w \in Windows :
    wobj[w] = "alive" /\ thread[w] \in {"created"} \cup Pumping => m_hWnd[w]

\* No step of the window or of its owner breaks HandleStored.
LEMMA HandleStoredStep == WndTypeOK /\ HandleStored /\ [WndNext]_wndVars => HandleStored'
<1> SUFFICES ASSUME WndTypeOK, HandleStored, [WndNext]_wndVars PROVE HandleStored'
  OBVIOUS
<1> USE DEF WndTypeOK, HandleStored, Pumping
<1>1. CASE UNCHANGED wndVars
  BY <1>1 DEF wndVars
<1>2. CASE OwnerFault
  BY <1>2 DEF OwnerFault
<1>3. ASSUME NEW w \in Windows, NEW p \in Providers, Create(w, p)
      PROVE  HandleStored'
  BY <1>3 DEF Create, Construct
<1>4. ASSUME NEW w \in Windows, Delete(w)
      PROVE  HandleStored'
  BY <1>4 DEF Delete, Destruct
<1>5. ASSUME NEW w \in Windows, WindowThread(w)
      PROVE  HandleStored'
  BY <1>5 DEF WindowThread, MyRegisterClass, OpenEventWindow, StoreHandle,
     ShowEventWindow, StartFailed, CallGetMessage, TakePosted, TakeInput, AnswerInput,
     Toggle, TouchFreedWindow
<1>6. ASSUME NEW w \in Windows, Callback(w)
      PROVE  HandleStored'
  BY <1>6 DEF Callback, MoveThread
<1>7. ASSUME NEW w \in Windows, FaultInCallback(w)
      PROVE  HandleStored'
  BY <1>7 DEF FaultInCallback
<1>8. ASSUME NEW w \in Windows, UserInput(w)
      PROVE  HandleStored'
  BY <1>8 DEF UserInput
<1>9. ASSUME NEW w \in Windows, OwnerTouchesFreed(w)
      PROVE  HandleStored'
  BY <1>9 DEF OwnerTouchesFreed
<1>10. ASSUME NEW w \in Windows, ModalLoop(w)
       PROVE  HandleStored'
  BY <1>10, ModalLoopKeeps
<1> QED
  BY <1>1, <1>2, <1>3, <1>4, <1>5, <1>6, <1>7, <1>8, <1>9, <1>10 DEF WndNext

\* The only step that deletes an object posts the exit message its pump is
\* owed.
LEMMA DeletionStep ==
  ASSUME WndTypeOK, HandleStored, [WndNext]_wndVars, NEW w \in Windows,
         wobj[w] = "alive", wobj'[w] = "deleted", thread[w] \in Pumping
  PROVE  posted'[w] = Append(posted[w], "exit")
<1> USE DEF WndTypeOK
<1>1. PICK v \in Windows : Delete(v)
  BY ModalLoopKeeps DEF WndNext, wndVars, OwnerFault, Create, Construct, WindowThread,
     MyRegisterClass, OpenEventWindow, StoreHandle, ShowEventWindow, StartFailed,
     CallGetMessage, TakePosted, TakeInput, AnswerInput, Toggle, TouchFreedWindow,
     Callback, MoveThread, FaultInCallback, UserInput, OwnerTouchesFreed
<1>2. v = w
  BY <1>1 DEF Delete, Destruct
<1>3. m_hWnd[w]
  BY DEF HandleStored
<1> QED
  BY <1>1, <1>2, <1>3 DEF Delete, Destruct

\* A thread that is pumping is always told when its object is deleted.
THEOREM PumpIsTold == WndSpec => DeletionTellsPump
<1>1. WndInit => HandleStored
  BY DEF WndInit, HandleStored, Pumping
<1>2. WndTypeOK /\ HandleStored /\ [WndNext]_wndVars
        => [\A w \in Windows :
              wobj[w] = "alive" /\ wobj'[w] = "deleted" /\ thread[w] \in Pumping
                => posted'[w] = Append(posted[w], "exit")]_wndVars
  BY DeletionStep
<1> QED
  BY <1>1, <1>2, HandleStoredStep, WndTypeCorrect, PTL DEF WndSpec, DeletionTellsPump

-----------------------------------------------------------------------------
(***************************************************************************)
(* The way of an exit message.  That it ends the thread or is overtaken by *)
(* a modal loop, ExitEndsThread, needs fairness and stays with TLC.  What  *)
(* carries it is proved here: outside a modal loop the thread of a window  *)
(* with an exit message can always go on, nobody else takes the message    *)
(* further from it, and each of its steps takes it nearer; inside a modal  *)
(* loop the message moves up too, and at the head of the queue it is lost. *)
(***************************************************************************)
Exits(w) == {i \in DOMAIN posted[w] : posted[w][i] = "exit"}

\* A window whose object is alive has an owner, and one that is yet to be
\* constructed has no thread.
Owned ==
  \A w \in Windows : /\ wobj[w] = "alive" => m_pProvider[w] # NULL
                     /\ wobj[w] = "unused" => thread[w] = "none"

\* No step takes an owner from an object that is alive.
LEMMA OwnedStep == WndTypeOK /\ Owned /\ [WndNext]_wndVars => Owned'
<1> SUFFICES ASSUME WndTypeOK, Owned, [WndNext]_wndVars PROVE Owned'
  OBVIOUS
<1> USE NullAssumption DEF WndTypeOK, Owned
<1>1. CASE UNCHANGED wndVars
  BY <1>1 DEF wndVars
<1>2. ASSUME NEW w \in Windows, NEW p \in Providers, Create(w, p) PROVE Owned'
  BY <1>2 DEF Create, Construct
<1>3. ASSUME NEW w \in Windows, Delete(w) PROVE Owned'
  BY <1>3 DEF Delete, Destruct
<1>4. ASSUME NEW w \in Windows, WindowThread(w) \/ Callback(w) PROVE Owned'
  BY <1>4 DEF WindowThread, MyRegisterClass, OpenEventWindow, StoreHandle,
     ShowEventWindow, StartFailed, CallGetMessage, TakePosted, TakeInput, AnswerInput,
     Toggle, TouchFreedWindow, Callback, MoveThread
<1>5. CASE UNCHANGED <<wobj, m_pProvider, thread>>
  BY <1>5
<1>6. ASSUME NEW w \in Windows, ModalLoop(w) PROVE Owned'
  BY <1>6, ModalLoopKeeps
<1> QED
  BY <1>1, <1>2, <1>3, <1>4, <1>5, <1>6
     DEF WndNext, OwnerFault, FaultInCallback, UserInput, OwnerTouchesFreed

\* The steps of a pumping thread, as far as their guards go: GetMessage needs
\* a message, and OnConnectStatusChanged an owner to call or freed memory to
\* look for one in.
CanGoOn(w) ==
  \/ thread[w] \in {"pump", "post", "call"}
  \/ thread[w] = "wait" /\ posted[w] # <<>>
  \/ thread[w] = "notify" /\ (m_pProvider[w] # NULL \/ wobj[w] = "deleted")

ToldCanGoOn ==
  \A w \in Windows :
    thread[w] \in Pumping /\ Exits(w) # {} => CanGoOn(w) \/ thread[w] = "modal"

\* A pumping thread that has an exit message waiting is itself left waiting in
\* one place only, the modal loop of a message box or of DefWindowProc, until the
\* user ends that (CmdEventWnd.cpp:213, :229); everywhere else it can go on
\* (CmdEventWnd.cpp:166-180), whether its object lives or not.
THEOREM ToldThreadGoesOn == WndSpec => []ToldCanGoOn
<1>1. WndInit => Owned
  BY DEF WndInit, Owned
<1>2. WndTypeOK /\ Owned => ToldCanGoOn
  BY DEF WndTypeOK, Owned, ToldCanGoOn, CanGoOn, Exits, Pumping
<1> QED
  BY <1>1, <1>2, OwnedStep, WndTypeCorrect, PTL DEF WndSpec

\* The steps a pumping thread takes before it looks for a message.  A modal loop
\* may have the pump's step still before it.
ToWait == [post |-> 4, notify |-> 3, call |-> 2, pump |-> 1, modal |-> 1, wait |-> 0]

\* How many steps the thread is from the message at place i, at most.
Distance(w, i) == 5 * i + ToWait[thread[w]]

OwnStep(w) == WindowThread(w) \/ Callback(w)

\* Where the exit message at place i is after a step, if it is still there: never
\* further back in the queue, never further from the thread unless that enters a
\* modal loop, and nearer after a step of the thread.
StillTold(w, i) ==
  /\ thread'[w] \in Pumping
  /\ \E j \in Exits(w)' :
       /\ j <= i
       /\ EnterModalLoop(w) \/ Distance(w, j)' <= Distance(w, i)
       /\ OwnStep(w) /\ Running' => Distance(w, j)' < Distance(w, i)

\* The modal loop has taken it: it was the oldest message.
LostInModalLoop(w, i) == ModalTakePosted(w) /\ i = 1

ExitGetsNearer ==
  [][\A w \in Windows : \A i \in Exits(w) :
       thread[w] \in Pumping
         => \/ thread'[w] = "ended"
            \/ LostInModalLoop(w, i)
            \/ StillTold(w, i)]_wndVars

LEMMA DistanceIsInt ==
  ASSUME NEW w \in Windows, NEW i \in Int, thread[w] \in Pumping
  PROVE  Distance(w, i) \in Int
BY DEF Distance, ToWait, Pumping

\* A step that leaves messages where they are, or puts one behind them.
LEMMA MessageStays ==
  ASSUME WndTypeOK, NEW w \in Windows, NEW i \in Exits(w),
         \/ posted'[w] = posted[w]
         \/ \E m \in {"toggle", "exit"} : posted'[w] = Append(posted[w], m)
  PROVE  i \in Exits(w)'
<1>1. posted[w] \in Seq({"toggle", "exit"}) /\ i \in 1 .. Len(posted[w])
  BY DEF WndTypeOK, Exits
<1>2. i \in 1 .. Len(posted'[w]) /\ posted'[w][i] = posted[w][i] /\ Len(posted'[w]) \in Nat
      /\ DOMAIN posted'[w] = 1 .. Len(posted'[w])
  <2>1. CASE posted'[w] = posted[w]
    BY <1>1, <2>1
  <2>2. CASE \E m \in {"toggle", "exit"} : posted'[w] = Append(posted[w], m)
    BY <1>1, <2>2
  <2> QED
    BY <2>1, <2>2
<1> QED
  BY <1>2 DEF Exits

\* The message at the head is taken and the others move up.
LEMMA MessageMovesUp ==
  ASSUME WndTypeOK, NEW w \in Windows, NEW i \in Exits(w), posted[w] # <<>>,
         posted'[w] = Tail(posted[w])
  PROVE  IF i = 1 THEN Head(posted[w]) = "exit" ELSE i - 1 \in Exits(w)'
<1>1. /\ posted[w] \in Seq({"toggle", "exit"}) /\ posted[w] # <<>>
      /\ i \in 1 .. Len(posted[w]) /\ posted[w][i] = "exit"
      /\ posted'[w] = Tail(posted[w])
  BY DEF WndTypeOK, Exits
<1>2. CASE i = 1
  BY <1>1, <1>2
<1>3. CASE i # 1
  <2>1. /\ DOMAIN Tail(posted[w]) = 1 .. Len(posted[w]) - 1
        /\ Tail(posted[w])[i - 1] = posted[w][i]
    BY <1>1, <1>3
  <2>2. i - 1 \in DOMAIN posted'[w] /\ posted'[w][i - 1] = "exit"
    <3>1. i - 1 \in 1 .. Len(posted[w]) - 1
      BY <1>1, <1>3
    <3> QED
      BY <1>1, <2>1, <3>1
  <2>3. i - 1 \in Exits(w)'
    BY <2>2, Zenon DEF Exits
  <2> QED
    BY <1>3, <2>3
<1> QED
  BY <1>2, <1>3

\* A step of the thread of w itself.
LEMMA OwnStepGetsNearer ==
  ASSUME WndTypeOK, NEW w \in Windows, NEW i \in Exits(w), thread[w] \in Pumping,
         OwnStep(w)
  PROVE  thread'[w] = "ended" \/ StillTold(w, i)
<1>0. /\ i \in Nat /\ i <= i /\ thread \in [Windows -> Positions]
      /\ Exits(w) # {} /\ posted[w] # <<>>
  BY DEF WndTypeOK, Exits
<1>1. ASSUME thread'[w] \in Pumping, i \in Exits(w)', ToWait[thread'[w]] < ToWait[thread[w]]
      PROVE  StillTold(w, i)
  <2>1. Distance(w, i)' < Distance(w, i) /\ Distance(w, i)' <= Distance(w, i)
    BY <1>0, <1>1 DEF Distance, ToWait, Pumping
  <2> QED
    BY <1>0, <1>1, <2>1, Zenon DEF StillTold
<1>2. CASE TakePosted(w)
  <2>1. IF i = 1 THEN Head(posted[w]) = "exit" ELSE i - 1 \in Exits(w)'
    BY <1>2, MessageMovesUp DEF TakePosted, WndTypeOK
  <2>2. CASE Head(posted[w]) = "exit"
    BY <1>0, <1>2, <2>2 DEF TakePosted
  <2>3. CASE i - 1 \in Exits(w)' /\ Head(posted[w]) # "exit"
    <3>1. thread[w] = "wait" /\ thread'[w] = "post"
      BY <1>0, <1>2, <2>3 DEF TakePosted
    <3>2. /\ Distance(w, i - 1)' < Distance(w, i) /\ Distance(w, i - 1)' <= Distance(w, i)
          /\ i - 1 <= i
      BY <1>0, <2>3, <3>1 DEF Distance, ToWait
    <3> QED
      BY <2>3, <3>1, <3>2 DEF StillTold, Pumping
  <2> QED
    BY <2>1, <2>2, <2>3
<1>3. CASE CallGetMessage(w) \/ Toggle(w) \/ Callback(w)
  <2>1. posted' = posted
    BY <1>3 DEF CallGetMessage, Toggle, Callback, MoveThread
  <2>2. thread'[w] \in Pumping /\ ToWait[thread'[w]] < ToWait[thread[w]]
    BY <1>0, <1>3 DEF CallGetMessage, Toggle, Callback, MoveThread, ToWait, Pumping
  <2> QED
    BY <1>1, <2>1, <2>2, MessageStays
<1>4. CASE TouchFreedWindow(w)
  <2>1. posted' = posted /\ thread' = thread /\ ~ Running'
    BY <1>4 DEF TouchFreedWindow, Crash, Running
  <2>2. i \in Exits(w)' /\ Distance(w, i)' <= Distance(w, i) /\ thread'[w] \in Pumping
    BY <1>0, <2>1, MessageStays, DistanceIsInt DEF Distance
  <2> QED
    BY <1>0, <2>1, <2>2, Zenon DEF StillTold
<1>5. CASE MyRegisterClass(w) \/ OpenEventWindow(w) \/ StoreHandle(w) \/ ShowEventWindow(w)
             \/ StartFailed(w) \/ TakeInput(w)
  BY <1>0, <1>5 DEF MyRegisterClass, OpenEventWindow, StoreHandle, ShowEventWindow,
     StartFailed, TakeInput, AnswerInput, Pumping
<1> QED
  BY <1>2, <1>3, <1>4, <1>5 DEF OwnStep, WindowThread

\* A step of the modal loop of w.
LEMMA ModalLoopMovesUp ==
  ASSUME WndTypeOK, NEW w \in Windows, NEW i \in Exits(w), ModalLoop(w), ~ OwnStep(w)
  PROVE  LostInModalLoop(w, i) \/ StillTold(w, i)
<1>0. i \in Nat /\ i <= i /\ thread \in [Windows -> Positions] /\ posted[w] # <<>>
  BY DEF WndTypeOK, Exits
<1>1. CASE EnterModalLoop(w) \/ ModalEnds(w)
  <2>1. posted' = posted /\ thread'[w] \in Pumping
    BY <1>0, <1>1 DEF EnterModalLoop, ModalEnds, Pumping
  <2>2. i \in Exits(w)'
    BY <2>1, MessageStays
  <2>3. EnterModalLoop(w) \/ Distance(w, i)' <= Distance(w, i)
    BY <1>0, <1>1 DEF ModalEnds, Distance, ToWait
  <2> QED
    BY <1>0, <2>1, <2>2, <2>3, Zenon DEF StillTold
<1>2. CASE ModalTakePosted(w)
  <2>1. IF i = 1 THEN Head(posted[w]) = "exit" ELSE i - 1 \in Exits(w)'
    BY <1>2, MessageMovesUp DEF ModalTakePosted, WndTypeOK
  <2>2. CASE i - 1 \in Exits(w)'
    <3>1. thread[w] = "modal" /\ thread'[w] = "modal"
      BY <1>2 DEF ModalTakePosted
    <3>2. i - 1 <= i /\ Distance(w, i - 1)' <= Distance(w, i)
      BY <1>0, <3>1 DEF Distance, ToWait
    <3> QED
      BY <2>2, <3>1, <3>2 DEF StillTold, Pumping
  <2> QED
    BY <1>2, <2>1, <2>2 DEF LostInModalLoop
<1>3. CASE ModalTakeInput(w)
  BY <1>0, <1>3 DEF ModalTakeInput, AnswerInput
<1> QED
  BY <1>1, <1>2, <1>3 DEF ModalLoop

\* A step of anybody else: the owner may put an exit message behind the others.
LEMMA OthersLeaveInPlace ==
  ASSUME WndTypeOK, Owned, NEW w \in Windows, NEW i \in Exits(w), thread[w] \in Pumping,
         [WndNext]_wndVars, ~ OwnStep(w), ~ ModalLoop(w)
  PROVE  StillTold(w, i)
<1> DEFINE InPlace == /\ thread'[w] = thread[w]
                      /\ \/ posted'[w] = posted[w]
                         \/ posted'[w] = Append(posted[w], "exit")
<1> USE DEF WndTypeOK
<1>1. InPlace
  <2>1. CASE UNCHANGED wndVars
    BY <2>1 DEF wndVars
  <2>2. CASE OwnerFault
    BY <2>2 DEF OwnerFault
  <2>3. ASSUME NEW v \in Windows, NEW p \in Providers, Create(v, p) PROVE InPlace
    BY <2>3 DEF Create, Construct, Owned, Pumping
  <2>4. ASSUME NEW v \in Windows, Delete(v) PROVE InPlace
    BY <2>4 DEF Delete, Destruct
  <2>5. ASSUME NEW v \in Windows, v # w, OwnStep(v) PROVE InPlace
    BY <2>5 DEF OwnStep, WindowThread, MyRegisterClass, OpenEventWindow, StoreHandle,
       ShowEventWindow, StartFailed, CallGetMessage, TakePosted, TakeInput, AnswerInput,
       Toggle, TouchFreedWindow, Callback, MoveThread
  <2>6. ASSUME NEW v \in Windows, v # w, ModalLoop(v) PROVE InPlace
    BY <2>6 DEF ModalLoop, EnterModalLoop, ModalTakePosted, ModalTakeInput, AnswerInput,
       ModalEnds
  <2>7. ASSUME NEW v \in Windows, FaultInCallback(v) \/ UserInput(v) \/ OwnerTouchesFreed(v)
        PROVE  InPlace
    BY <2>7 DEF FaultInCallback, UserInput, OwnerTouchesFreed
  <2> QED
    BY <2>1, <2>2, <2>3, <2>4, <2>5, <2>6, <2>7 DEF WndNext, OwnStep
<1>2. i \in Exits(w)'
  BY <1>1, MessageStays
<1>3. i \in Int /\ i <= i
  BY DEF Exits
<1>4. Distance(w, i)' <= Distance(w, i) /\ thread'[w] \in Pumping
  BY <1>1, <1>3, DistanceIsInt DEF Distance
<1> QED
  BY <1>2, <1>3, <1>4, Zenon DEF StillTold

\* Whatever the owner and the user do meanwhile, an exit message leaves the queue
\* in two ways only: it ends the thread, or a modal loop takes it when it is the
\* oldest.  Until then it never moves back, each step of the thread brings it
\* nearer, and nothing but a modal loop that begins takes it further away
\* (CmdEventWnd.cpp:172-180, :213, :229).
THEOREM ExitComesNearer == WndSpec => ExitGetsNearer
<1>1. WndInit => Owned
  BY DEF WndInit, Owned
<1>2. WndTypeOK /\ Owned /\ [WndNext]_wndVars
        => [\A w \in Windows : \A i \in Exits(w) :
              thread[w] \in Pumping
                => \/ thread'[w] = "ended"
                   \/ LostInModalLoop(w, i)
                   \/ StillTold(w, i)]_wndVars
  BY OwnStepGetsNearer, ModalLoopMovesUp, OthersLeaveInPlace
<1> QED
  BY <1>1, <1>2, OwnedStep, WndTypeCorrect, PTL DEF WndSpec, ExitGetsNearer
=============================================================================
