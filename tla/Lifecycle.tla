------------------------------ MODULE Lifecycle ------------------------------
(***************************************************************************)
(* One handle from tc_ipc_ctrl_open to tc_ipc_ctrl_close: the memory, the  *)
(* device file and the three threads it stands for, with a failure of each *)
(* step of open.  What the threads move through the rings is the subject   *)
(* of SendPath, ReceivePath and Parser; here a turn of a thread is a check *)
(* of its run flag and its work.                                           *)
(*                                                                         *)
(* The client keeps to this: it uses the handle from when it has got it    *)
(* until it closes it, which it does once.  It may send and close from any *)
(* thread, also from the receive callback, which runs in the parser        *)
(* thread; a callback that is running when another thread closes may still *)
(* send.  Two handles share nothing, so one is enough.                     *)
(***************************************************************************)
EXTENDS Integers

CONSTANTS MaxMessages,   \* bound: the number of messages sent
          PacketSize,    \* the bytes of a message's packet
          RingBytes,     \* the bytes the write ring holds (16383 in the code)
          WriteSize      \* IPC_WRITE_SIZE (512 in the code)

ASSUME LifecycleAssumption ==
    /\ MaxMessages \in Nat
    /\ PacketSize \in Nat \ {0} /\ RingBytes \in Nat \ {0} /\ WriteSize \in Nat \ {0}

VARIABLES
    api,            \* the next step of the call of open or close
    handle,         \* struct ipc_ctrl_handle: "none", "live" or "freed"
    parserHandle,   \* the same of handle.pParserHandle
    fd,             \* "none", "open" or "closed"
    run,            \* readThreadRun, writeThreadRun, parserThreadRun
    thread,         \* where each thread is
    closer,         \* who called close: "nobody", "client" or "callback"
    failedAt,       \* history: the step of open that failed
    sent,           \* how many messages msg_send has accepted
    queue           \* how many bytes are in the write ring

memory == <<handle, parserHandle>>
messages == <<sent, queue>>
vars == <<api, memory, fd, run, thread, closer, failedAt, messages>>

Threads == {"read", "write", "parser"}

OpenSteps == {"malloc", "open device", "set parameters", "start read", "start write",
              "init parser", "start parser"}
CloseSteps == {"stop parser", "join parser", "free parser", "stop read", "join read",
               "stop write", "join write", "close device", "free handle"}

Init ==
    /\ api = "malloc"
    /\ handle = "none" /\ parserHandle = "none" /\ fd = "none"
    /\ run = [t \in Threads |-> FALSE]
    /\ thread = [t \in Threads |-> "none"]
    /\ closer = "nobody" /\ failedAt = "none"
    /\ sent = 0 /\ queue = 0

Step(from, to) == api = from /\ api' = to

-----------------------------------------------------------------------------
(* tc_ipc_ctrl_open.  A step that fails ends it: the handle is freed, and  *)
(* nothing else that was done is undone.                                   *)

Fail(step) ==
    /\ Step(step, "failed")
    /\ failedAt' = step
    /\ handle' = IF handle = "live" THEN "freed" ELSE handle
    /\ UNCHANGED <<parserHandle, fd, closer, messages>>

Malloc ==
    \/ /\ Step("malloc", "open device")
       /\ handle' = "live"
       /\ UNCHANGED <<parserHandle, fd, run, thread, closer, failedAt, messages>>
    \/ Fail("malloc") /\ UNCHANGED <<run, thread>>

OpenDevice ==
    \/ /\ Step("open device", "set parameters")
       /\ fd' = "open"
       /\ UNCHANGED <<memory, run, thread, closer, failedAt, messages>>
    \/ Fail("open device") /\ UNCHANGED <<run, thread>>

SetParam ==
    \/ /\ Step("set parameters", "start read")
       /\ UNCHANGED <<memory, fd, run, thread, closer, failedAt, messages>>
    \/ Fail("set parameters") /\ UNCHANGED <<run, thread>>

\* The run flag is set before pthread_create.
Started(t, from, to) ==
    /\ Step(from, to)
    /\ run' = [run EXCEPT ![t] = TRUE]
    /\ thread' = [thread EXCEPT ![t] = "check"]
    /\ UNCHANGED <<memory, fd, closer, failedAt, messages>>

\* Mutant of StartRead: the flag is not set in time for the thread's first look.
StartReadFlagLate ==
    /\ Step("start read", "start write")
    /\ thread' = [thread EXCEPT !["read"] = "check"]
    /\ UNCHANGED <<memory, fd, run, closer, failedAt, messages>>

StartRead ==
    \/ Started("read", "start read", "start write")
    \/ Fail("start read") /\ UNCHANGED <<run, thread>>

\* When the thread cannot be created, writeThreadRun stays 1.
StartWrite ==
    \/ Started("write", "start write", "init parser")
    \/ /\ Fail("start write")
       /\ run' = [run EXCEPT !["write"] = TRUE]
       /\ UNCHANGED thread

\* ipc_parser_handle_init
InitParser ==
    \/ /\ Step("init parser", "start parser")
       /\ parserHandle' = "live"
       /\ UNCHANGED <<handle, fd, run, thread, closer, failedAt, messages>>
    \/ Fail("init parser") /\ UNCHANGED <<run, thread>>

\* Mutant of StartParser: the flag is left set, as StartWrite leaves it.
StartParserFlagLeft ==
    \/ Started("parser", "start parser", "opened")
    \/ /\ Step("start parser", "opened")
       /\ failedAt' = "start parser"
       /\ run' = [run EXCEPT !["parser"] = TRUE]
       /\ UNCHANGED <<memory, fd, thread, closer, messages>>

\* pthread_create reports a failure as a positive number, which is taken for
\* success.
StartParser ==
    \/ Started("parser", "start parser", "opened")
    \/ /\ Step("start parser", "opened")
       /\ failedAt' = "start parser"
       /\ UNCHANGED <<memory, fd, run, thread, closer, messages>>

Open == Malloc \/ OpenDevice \/ SetParam \/ StartRead \/ StartWrite \/ InitParser \/ StartParser

-----------------------------------------------------------------------------
(* The client.                                                             *)

\* tc_ipc_ctrl_msg_send: the packet goes into the write ring, whose oldest bytes
\* are dropped when there is no room.
Send ==
    /\ sent < MaxMessages
    /\ sent' = sent + 1
    /\ queue' = IF queue + PacketSize > RingBytes THEN RingBytes ELSE queue + PacketSize
    /\ UNCHANGED <<api, memory, fd, run, thread, closer, failedAt>>

ClientSends == api = "opened" /\ Send

CallClose(who) ==
    /\ Step("opened", "stop parser")
    /\ closer' = who
    /\ UNCHANGED <<memory, fd, run, thread, failedAt, messages>>

ClientCloses == CallClose("client")

-----------------------------------------------------------------------------
(* tc_ipc_ctrl_close.                                                      *)

CloseStep(from, to) ==
    /\ Step(from, to)
    /\ UNCHANGED <<thread, closer, failedAt, messages>>

\* A thread whose flag is set is told to stop and waited for.
Stop(t, step, wait, skip) ==
    /\ \/ run[t] /\ CloseStep(step, wait)
       \/ ~run[t] /\ CloseStep(step, skip)
    /\ run' = [run EXCEPT ![t] = FALSE]
    /\ UNCHANGED <<memory, fd>>

\* pthread_join; a thread that joins itself is refused at once (EDEADLK).
JoinReturns(t) == thread[t] = "done" \/ (t = "parser" /\ closer = "callback")

Join(t, wait, next) ==
    /\ JoinReturns(t)
    /\ CloseStep(wait, next)
    /\ UNCHANGED <<memory, fd, run>>

StopParser ==
    \/ Stop("parser", "stop parser", "join parser", "free parser")
    \/ Join("parser", "join parser", "free parser")

\* Mutant of FreeParser: the handle of the decoder is kept.
FreeParserForgotten ==
    /\ CloseStep("free parser", "stop read")
    /\ UNCHANGED <<memory, fd, run>>

\* ipc_parser_handle_deinit
FreeParser ==
    /\ CloseStep("free parser", "stop read")
    /\ parserHandle' = "freed"
    /\ UNCHANGED <<handle, fd, run>>

\* Mutant of StopRead: the thread is waited for before its flag is cleared.
StopReadJoinsFirst ==
    \/ /\ CloseStep("stop read", "join read")
       /\ UNCHANGED <<memory, fd, run>>
    \/ Join("read", "join read", "stop write")

StopRead ==
    \/ Stop("read", "stop read", "join read", "stop write")
    \/ Join("read", "join read", "stop write")

\* Mutant of StopWrite: the thread is told to stop but not waited for.
StopWriteNoJoin == Stop("write", "stop write", "close device", "close device")

StopWrite ==
    \/ Stop("write", "stop write", "join write", "close device")
    \/ Join("write", "join write", "close device")

CloseDevice ==
    /\ CloseStep("close device", "free handle")
    /\ fd' = "closed"
    /\ UNCHANGED <<memory, run>>

FreeHandle ==
    /\ CloseStep("free handle", "closed")
    /\ handle' = "freed"
    /\ UNCHANGED <<parserHandle, fd, run>>

Close == StopParser \/ FreeParser \/ StopRead \/ StopWrite \/ CloseDevice \/ FreeHandle

-----------------------------------------------------------------------------
(* The threads.                                                            *)

\* The memory in which a thread finds its flag and what it works on.
MemoryLive(t) == handle = "live" /\ (t = "parser" => parserHandle = "live")

Moves(t, from, to) ==
    /\ thread[t] = from
    /\ thread' = [thread EXCEPT ![t] = to]
    /\ UNCHANGED <<memory, fd, run, failedAt>>

\* The condition of the loop; a flag in freed memory may have any value.
CheckFlag(t) ==
    /\ \/ (run[t] \/ ~MemoryLive(t)) /\ Moves(t, "check", "work")
       \/ (~run[t] \/ ~MemoryLive(t)) /\ Moves(t, "check", "done")
    /\ UNCHANGED <<api, closer, messages>>

\* read returns, with bytes or because COM_VTIME has passed.
ReadThread ==
    \/ CheckFlag("read")
    \/ Moves("read", "work", "check") /\ UNCHANGED <<api, closer, messages>>

\* Mutants of Popped: only full chunks are popped, the rest waits for more; and a
\* full chunk is popped whatever there is.
PoppedFullChunk == IF queue < WriteSize THEN 0 ELSE WriteSize

PoppedAlways == WriteSize

Popped == IF queue < WriteSize THEN queue ELSE WriteSize

\* The device is ready.  The chunk is gone from the ring whether the write then
\* succeeds, is partial or fails.
PopChunk ==
    /\ queue > 0
    /\ Moves("write", "work", "check")
    /\ queue' = queue - Popped
    /\ UNCHANGED <<api, closer, sent>>

\* A turn with an empty ring, or with a device that is not ready.
WriteNothing == Moves("write", "work", "check") /\ UNCHANGED <<api, closer, messages>>

WriteThread == CheckFlag("write") \/ PopChunk \/ WriteNothing

\* The decoder finds a message, or not.
ParserThread ==
    \/ CheckFlag("parser")
    \/ /\ \E next \in {"check", "callback"} : Moves("parser", "work", next)
       /\ UNCHANGED <<api, closer, messages>>

\* The callback may send or close when the client has got the handle.
InCallback == thread["parser"] = "callback"

CallbackReturns ==
    /\ closer = "callback" => api = "closed"
    /\ Moves("parser", "callback", "check")
    /\ UNCHANGED <<api, closer, messages>>

CallbackSends ==
    /\ InCallback
    /\ api = "opened" \/ (api \in CloseSteps /\ closer = "client")
    /\ Send

CallbackCloses == InCallback /\ CallClose("callback")

Parser == ParserThread \/ CallbackReturns

-----------------------------------------------------------------------------
Next ==
    \/ Open \/ ClientSends \/ ClientCloses \/ Close
    \/ ReadThread \/ WriteThread
    \/ Parser \/ CallbackSends \/ CallbackCloses

Spec == Init /\ [][Next]_vars

\* Open and close go on once called, the threads sleep 5 ms a turn, read
\* returns after COM_VTIME and the callback returns.  The device may stop being
\* ready, but not for ever.
FairSpec ==
    /\ Spec
    /\ WF_vars(Open) /\ WF_vars(Close)
    /\ WF_vars(ReadThread) /\ WF_vars(WriteThread) /\ WF_vars(Parser)
    /\ SF_vars(PopChunk)

-----------------------------------------------------------------------------
Alive(t) == thread[t] \notin {"none", "done"}

TypeOK ==
    /\ api \in OpenSteps \cup CloseSteps \cup {"opened", "failed", "closed"}
    /\ handle \in {"none", "live", "freed"}
    /\ parserHandle \in {"none", "live", "freed"}
    /\ fd \in {"none", "open", "closed"}
    /\ run \in [Threads -> BOOLEAN]
    /\ thread \in [Threads -> {"none", "check", "work", "callback", "done"}]
    /\ closer \in {"nobody", "client", "callback"}
    /\ failedAt \in OpenSteps \cup {"none"}
    /\ sent \in 0 .. MaxMessages /\ queue \in 0 .. RingBytes

(* No thread outlives the memory it works on, and a callback that runs     *)
(* while another thread closes the handle still sends through a live one.  *)
(* The exceptions are exactly these: an open that fails after it started   *)
(* a thread, and, for the parser thread, a close from its own callback.    *)
MemoryOutlivesThreads ==
    \A t \in Threads :
        Alive(t) => \/ MemoryLive(t)
                    \/ failedAt \in {"start write", "init parser"}
                    \/ t = "parser" /\ closer = "callback"

(* No thread reads from or writes to the file descriptor after it has been *)
(* closed and may belong to another file, also when the callback closes.   *)
DeviceOutlivesThreads == fd = "closed" => ~Alive("read") /\ ~Alive("write")

(* close only waits for threads that were created: a failed pthread_create *)
(* leaves no flag that makes close join a thread that does not exist.      *)
JoinsOnlyCreated ==
    \A t \in Threads : run[t] /\ closer # "nobody" => thread[t] # "none"

(* While a handle is open its threads run, none of them having missed its  *)
(* flag; only the parser thread may be missing, when it could not be       *)
(* created and open reported success all the same.                         *)
OpenServes ==
    api = "opened" => \A t \in Threads :
                          Alive(t) \/ (t = "parser" /\ failedAt = "start parser")

(* When the client's close returns, everything that open acquired has been *)
(* given back, however open went.                                          *)
CloseReleasesAll ==
    api = "closed" /\ closer = "client" =>
        /\ handle = "freed" /\ parserHandle = "freed" /\ fd = "closed"
        /\ \A t \in Threads : ~Alive(t)

(* close returns, from the callback too: the threads it waits for see      *)
(* their flag, and none of them waits for the closing thread.              *)
CloseEnds == closer # "nobody" ~> api = "closed"

(* What msg_send accepted leaves the write ring, whoever sent it and       *)
(* however often the device is not ready, and also when it does not fill a *)
(* chunk and nothing follows it, unless the handle is closed: close does   *)
(* not wait for the ring to drain.  That a write then takes all of it is   *)
(* not said; what becomes of the bytes is the subject of SendPath.         *)
SentLeavesRing == queue > 0 ~> queue = 0 \/ closer # "nobody"
=============================================================================
