-------------------------- MODULE LifecycleProofs --------------------------
(***************************************************************************)
(* The safety of Lifecycle, for any number of messages.  The invariants    *)
(* speak of threads and of what they use; none of them is inductive,       *)
(* because what a thread may do depends on how far open or close has got.  *)
(* LifecycleInvariant says for each step of the two calls what exists.     *)
(***************************************************************************)
EXTENDS Lifecycle, TLAPS

\* Where ReadThread, WriteThread and the parser's handle are needed, ...
ReadServes == {"start write", "init parser", "start parser", "opened",
               "stop parser", "join parser", "free parser", "stop read"}
WriteServes == (ReadServes \ {"start write"}) \cup {"join read", "stop write"}
ParserLive == {"start parser", "opened", "stop parser", "join parser", "free parser"}

\* ... and where they are over and done with.
WriteOver == {"close device", "free handle", "closed"}
ReadOver == {"stop write", "join write"} \cup WriteOver
ParserFreed == {"stop read", "join read"} \cup ReadOver

\* The memory and the device file.
Resources ==
    /\ handle = "live" <=> api \in (OpenSteps \ {"malloc"}) \cup {"opened"} \cup CloseSteps
    /\ api = "closed" => handle = "freed"
    /\ parserHandle = "live" <=> api \in ParserLive
    /\ api \in ParserFreed => parserHandle = "freed"
    /\ fd = "closed" <=> api \in {"free handle", "closed"}
    /\ api \in {"malloc", "open device"} \/ failedAt \in {"malloc", "open device"} => fd = "none"

\* How open ended and who called close.
Outcome ==
    /\ api \in OpenSteps => failedAt = "none"
    /\ api = "failed" <=> failedAt \in OpenSteps \ {"start parser"}
    /\ closer = "nobody" <=> api \in OpenSteps \cup {"opened", "failed"}

\* An open that fails later leaves the thread to itself.
ReadThreadPhase ==
    /\ api \in {"malloc", "open device", "set parameters", "start read"} => thread["read"] = "none"
    /\ failedAt \in {"malloc", "open device", "set parameters", "start read"} =>
          thread["read"] = "none"
    /\ api \in ReadServes => run["read"] /\ Alive("read")
    /\ api = "join read" => thread["read"] # "none"
    /\ api \in ReadOver => thread["read"] = "done"

WriteThreadPhase ==
    /\ api \in OpenSteps \ WriteServes => thread["write"] = "none"
    /\ failedAt \in OpenSteps \ {"init parser", "start parser"} => thread["write"] = "none"
    /\ api \in WriteServes => run["write"] /\ Alive("write")
    /\ api = "join write" => thread["write"] # "none"
    /\ api \in WriteOver => thread["write"] = "done"

ParserThreadPhase ==
    /\ api \in OpenSteps \cup {"failed"} => thread["parser"] = "none" /\ ~run["parser"]
    /\ failedAt = "start parser" => thread["parser"] = "none" /\ ~run["parser"]
    /\ api \in {"opened", "stop parser"} /\ failedAt = "none" => run["parser"] /\ Alive("parser")
    /\ run["parser"] => thread["parser"] # "none"
    /\ api \in {"free parser"} \cup ParserFreed => ~Alive("parser") \/ closer = "callback"

LifecycleInvariant ==
    TypeOK /\ Resources /\ Outcome /\ ReadThreadPhase /\ WriteThreadPhase /\ ParserThreadPhase

-----------------------------------------------------------------------------
(* Every step keeps the invariant: one lemma for open, for close, for the  *)
(* client and for the threads.                                             *)

LEMMA InvariantInit == Init => LifecycleInvariant
  BY LifecycleAssumption
  DEF Init, LifecycleInvariant, TypeOK, Resources, Outcome, ReadThreadPhase, WriteThreadPhase,
      ParserThreadPhase, Alive, OpenSteps, CloseSteps, Threads, ReadServes, WriteServes,
      ParserLive, ParserFreed, ReadOver, WriteOver

\* The flags and the places of the threads keep their types.
LEMMA StartedType ==
  ASSUME TypeOK, NEW t \in Threads, NEW from, NEW to, Started(t, from, to)
  PROVE  /\ run' \in [Threads -> BOOLEAN]
         /\ thread' \in [Threads -> {"none", "check", "work", "callback", "done"}]
  BY DEF TypeOK, Started

LEMMA MovesType ==
  ASSUME TypeOK, NEW t \in Threads, NEW from, NEW to \in {"check", "work", "callback", "done"},
         Moves(t, from, to)
  PROVE  thread' \in [Threads -> {"none", "check", "work", "callback", "done"}]
  BY DEF TypeOK, Moves

(* What a step does is stated first, and then what it means for the        *)
(* invariant.                                                              *)

\* A step of open fails.
LEMMA FailKeeps ==
  ASSUME LifecycleInvariant, NEW step \in OpenSteps \ {"start parser"}, Fail(step), thread' = thread,
         run' \in [Threads -> BOOLEAN],
         run'["read"] = run["read"], run'["parser"] = run["parser"]
  PROVE  LifecycleInvariant'
<1> USE DEF OpenSteps, CloseSteps, ReadServes, WriteServes, ParserLive, ParserFreed, ReadOver, WriteOver,
            Alive
<1>1. /\ api = step /\ api' = "failed" /\ failedAt = "none" /\ failedAt' = step
      /\ handle \in {"none", "live", "freed"} /\ handle' \in {"none", "freed"}
      /\ UNCHANGED <<parserHandle, fd, thread, closer, sent, queue>>
  <2>1. /\ api = step /\ api' = "failed" /\ failedAt' = step
        /\ handle' = IF handle = "live" THEN "freed" ELSE handle
        /\ UNCHANGED <<parserHandle, fd, closer, sent, queue>>
    BY Zenon DEF Fail, Step, messages
  <2>2. failedAt = "none" /\ handle \in {"none", "live", "freed"}
    BY <2>1, Zenon DEF LifecycleInvariant, TypeOK, Outcome
  <2> QED
    BY <2>1, <2>2, Zenon
<1> QED
  BY <1>1, ZenonT(60) DEF LifecycleInvariant, TypeOK, Resources, Outcome, ReadThreadPhase,
     WriteThreadPhase, ParserThreadPhase

\* The memory is there, or open fails.
LEMMA MallocKeeps ==
  ASSUME LifecycleInvariant, Malloc
  PROVE  LifecycleInvariant'
<1> USE DEF OpenSteps, CloseSteps, ReadServes, WriteServes, ParserLive, ParserFreed, ReadOver, WriteOver,
            Alive
<1>1. CASE ~Fail("malloc")
  <2>1. /\ api = "malloc" /\ api' = "open device" /\ handle' = "live"
        /\ UNCHANGED <<parserHandle, fd, run, thread, closer, failedAt, sent, queue>>
    BY <1>1, Zenon DEF Malloc, Step, memory, messages
  <2> QED
    BY <2>1, ZenonT(60) DEF LifecycleInvariant, TypeOK, Resources, Outcome, ReadThreadPhase,
       WriteThreadPhase, ParserThreadPhase
<1>2. CASE Fail("malloc")
  <2>1. run' = run /\ thread' = thread
    BY <1>2, Zenon DEF Malloc, Fail, Step
  <2>2. run' \in [Threads -> BOOLEAN]
    BY <2>1, Zenon DEF LifecycleInvariant, TypeOK
  <2> QED
    BY <1>2, <2>1, <2>2, FailKeeps, Zenon
<1> QED
  BY <1>1, <1>2, Zenon

\* The device is open, or open fails.
LEMMA OpenDeviceKeeps ==
  ASSUME LifecycleInvariant, OpenDevice
  PROVE  LifecycleInvariant'
<1> USE DEF OpenSteps, CloseSteps, ReadServes, WriteServes, ParserLive, ParserFreed, ReadOver, WriteOver,
            Alive
<1>1. CASE ~Fail("open device")
  <2>1. /\ api = "open device" /\ api' = "set parameters" /\ fd' = "open"
        /\ UNCHANGED <<handle, parserHandle, run, thread, closer, failedAt, sent, queue>>
    BY <1>1, Zenon DEF OpenDevice, Step, memory, messages
  <2> QED
    BY <2>1, ZenonT(60) DEF LifecycleInvariant, TypeOK, Resources, Outcome, ReadThreadPhase,
       WriteThreadPhase, ParserThreadPhase
<1>2. CASE Fail("open device")
  <2>1. run' = run /\ thread' = thread
    BY <1>2, Zenon DEF OpenDevice, Fail, Step
  <2>2. run' \in [Threads -> BOOLEAN]
    BY <2>1, Zenon DEF LifecycleInvariant, TypeOK
  <2> QED
    BY <1>2, <2>1, <2>2, FailKeeps, Zenon
<1> QED
  BY <1>1, <1>2, Zenon

\* The device has its parameters, or open fails.
LEMMA SetParamKeeps ==
  ASSUME LifecycleInvariant, SetParam
  PROVE  LifecycleInvariant'
<1> USE DEF OpenSteps, CloseSteps, ReadServes, WriteServes, ParserLive, ParserFreed, ReadOver, WriteOver,
            Alive
<1>1. CASE ~Fail("set parameters")
  <2>1. /\ api = "set parameters" /\ api' = "start read"
        /\ UNCHANGED <<handle, parserHandle, fd, run, thread, closer, failedAt, sent, queue>>
    BY <1>1, Zenon DEF SetParam, Step, memory, messages
  <2> QED
    BY <2>1, ZenonT(60) DEF LifecycleInvariant, TypeOK, Resources, Outcome, ReadThreadPhase,
       WriteThreadPhase, ParserThreadPhase
<1>2. CASE Fail("set parameters")
  <2>1. run' = run /\ thread' = thread
    BY <1>2, Zenon DEF SetParam, Fail, Step
  <2>2. run' \in [Threads -> BOOLEAN]
    BY <2>1, Zenon DEF LifecycleInvariant, TypeOK
  <2> QED
    BY <1>2, <2>1, <2>2, FailKeeps, Zenon
<1> QED
  BY <1>1, <1>2, Zenon

\* The parser has its handle, or open fails.
LEMMA InitParserKeeps ==
  ASSUME LifecycleInvariant, InitParser
  PROVE  LifecycleInvariant'
<1> USE DEF OpenSteps, CloseSteps, ReadServes, WriteServes, ParserLive, ParserFreed, ReadOver, WriteOver,
            Alive
<1>1. CASE ~Fail("init parser")
  <2>1. /\ api = "init parser" /\ api' = "start parser" /\ parserHandle' = "live"
        /\ UNCHANGED <<handle, fd, run, thread, closer, failedAt, sent, queue>>
    BY <1>1, Zenon DEF InitParser, Step, memory, messages
  <2> QED
    BY <2>1, ZenonT(60) DEF LifecycleInvariant, TypeOK, Resources, Outcome, ReadThreadPhase,
       WriteThreadPhase, ParserThreadPhase
<1>2. CASE Fail("init parser")
  <2>1. run' = run /\ thread' = thread
    BY <1>2, Zenon DEF InitParser, Fail, Step
  <2>2. run' \in [Threads -> BOOLEAN]
    BY <2>1, Zenon DEF LifecycleInvariant, TypeOK
  <2> QED
    BY <1>2, <2>1, <2>2, FailKeeps, Zenon
<1> QED
  BY <1>1, <1>2, Zenon

\* The read thread runs, or open fails.
LEMMA StartReadKeeps ==
  ASSUME LifecycleInvariant, StartRead
  PROVE  LifecycleInvariant'
<1> USE DEF OpenSteps, CloseSteps, ReadServes, WriteServes, ParserLive, ParserFreed, ReadOver, WriteOver,
            Alive
<1>1. CASE Started("read", "start read", "start write")
  <2>1. /\ api = "start read" /\ api' = "start write"
        /\ run'["read"] /\ thread'["read"] = "check"
        /\ run'["write"] = run["write"] /\ thread'["write"] = thread["write"]
        /\ run'["parser"] = run["parser"] /\ thread'["parser"] = thread["parser"]
        /\ run' \in [Threads -> BOOLEAN]
        /\ thread' \in [Threads -> {"none", "check", "work", "callback", "done"}]
        /\ UNCHANGED <<handle, parserHandle, fd, closer, failedAt, sent, queue>>
    <3>1. /\ api = "start read" /\ api' = "start write"
          /\ UNCHANGED <<handle, parserHandle, fd, closer, failedAt, sent, queue>>
      BY <1>1, Zenon DEF Started, Step, memory, messages
    <3>2. /\ run' = [run EXCEPT !["read"] = TRUE] /\ thread' = [thread EXCEPT !["read"] = "check"]
          /\ run \in [Threads -> BOOLEAN]
          /\ thread \in [Threads -> {"none", "check", "work", "callback", "done"}]
      BY <1>1, Zenon DEF Started, LifecycleInvariant, TypeOK
    <3>3. /\ run'["read"]
          /\ run'["write"] = run["write"] /\ run'["parser"] = run["parser"]
      BY <3>2, Zenon DEF Threads
    <3>4. /\ thread'["read"] = "check"
          /\ thread'["write"] = thread["write"] /\ thread'["parser"] = thread["parser"]
      BY <3>2, Zenon DEF Threads
    <3>5. /\ run' \in [Threads -> BOOLEAN]
          /\ thread' \in [Threads -> {"none", "check", "work", "callback", "done"}]
      BY <1>1, StartedType, Zenon DEF LifecycleInvariant, Threads
    <3> QED
      BY <3>1, <3>3, <3>4, <3>5, Zenon
  <2> QED
    BY <2>1, ZenonT(60) DEF LifecycleInvariant, TypeOK, Resources, Outcome, ReadThreadPhase,
       WriteThreadPhase, ParserThreadPhase
<1>2. CASE ~Started("read", "start read", "start write")
  <2>1. Fail("start read") /\ run' = run /\ thread' = thread
    BY <1>2, Zenon DEF StartRead
  <2>2. run' \in [Threads -> BOOLEAN]
    BY <2>1, Zenon DEF LifecycleInvariant, TypeOK
  <2> QED
    BY <2>1, <2>2, FailKeeps, Zenon
<1> QED
  BY <1>1, <1>2, Zenon

\* The write thread runs, or open fails with the thread's flag set.
LEMMA StartWriteKeeps ==
  ASSUME LifecycleInvariant, StartWrite
  PROVE  LifecycleInvariant'
<1> USE DEF OpenSteps, CloseSteps, ReadServes, WriteServes, ParserLive, ParserFreed, ReadOver, WriteOver,
            Alive
<1>1. CASE Started("write", "start write", "init parser")
  <2>1. /\ api = "start write" /\ api' = "init parser"
        /\ run'["write"] /\ thread'["write"] = "check"
        /\ run'["read"] = run["read"] /\ thread'["read"] = thread["read"]
        /\ run'["parser"] = run["parser"] /\ thread'["parser"] = thread["parser"]
        /\ run' \in [Threads -> BOOLEAN]
        /\ thread' \in [Threads -> {"none", "check", "work", "callback", "done"}]
        /\ UNCHANGED <<handle, parserHandle, fd, closer, failedAt, sent, queue>>
    <3>1. /\ api = "start write" /\ api' = "init parser"
          /\ UNCHANGED <<handle, parserHandle, fd, closer, failedAt, sent, queue>>
      BY <1>1, Zenon DEF Started, Step, memory, messages
    <3>2. /\ run' = [run EXCEPT !["write"] = TRUE] /\ thread' = [thread EXCEPT !["write"] = "check"]
          /\ run \in [Threads -> BOOLEAN]
          /\ thread \in [Threads -> {"none", "check", "work", "callback", "done"}]
      BY <1>1, Zenon DEF Started, LifecycleInvariant, TypeOK
    <3>3. /\ run'["write"]
          /\ run'["read"] = run["read"] /\ run'["parser"] = run["parser"]
      BY <3>2, Zenon DEF Threads
    <3>4. /\ thread'["write"] = "check"
          /\ thread'["read"] = thread["read"] /\ thread'["parser"] = thread["parser"]
      BY <3>2, Zenon DEF Threads
    <3>5. /\ run' \in [Threads -> BOOLEAN]
          /\ thread' \in [Threads -> {"none", "check", "work", "callback", "done"}]
      BY <1>1, StartedType, Zenon DEF LifecycleInvariant, Threads
    <3> QED
      BY <3>1, <3>3, <3>4, <3>5, Zenon
  <2> QED
    BY <2>1, ZenonT(60) DEF LifecycleInvariant, TypeOK, Resources, Outcome, ReadThreadPhase,
       WriteThreadPhase, ParserThreadPhase
<1>2. CASE ~Started("write", "start write", "init parser")
  <2>1. /\ Fail("start write") /\ thread' = thread
        /\ run' = [run EXCEPT !["write"] = TRUE] /\ run \in [Threads -> BOOLEAN]
    BY <1>2, Zenon DEF StartWrite, LifecycleInvariant, TypeOK
  <2>2. /\ run' \in [Threads -> BOOLEAN]
        /\ run'["read"] = run["read"] /\ run'["parser"] = run["parser"]
    BY <2>1, Zenon DEF Threads
  <2> QED
    BY <2>1, <2>2, FailKeeps, Zenon
<1> QED
  BY <1>1, <1>2, Zenon

\* The parser thread runs, or open succeeds without it.
LEMMA StartParserKeeps ==
  ASSUME LifecycleInvariant, StartParser
  PROVE  LifecycleInvariant'
<1> USE DEF OpenSteps, CloseSteps, ReadServes, WriteServes, ParserLive, ParserFreed, ReadOver, WriteOver,
            Alive
<1>1. CASE Started("parser", "start parser", "opened")
  <2>1. /\ api = "start parser" /\ api' = "opened"
        /\ run'["parser"] /\ thread'["parser"] = "check"
        /\ run'["read"] = run["read"] /\ thread'["read"] = thread["read"]
        /\ run'["write"] = run["write"] /\ thread'["write"] = thread["write"]
        /\ run' \in [Threads -> BOOLEAN]
        /\ thread' \in [Threads -> {"none", "check", "work", "callback", "done"}]
        /\ UNCHANGED <<handle, parserHandle, fd, closer, failedAt, sent, queue>>
    <3>1. /\ api = "start parser" /\ api' = "opened"
          /\ UNCHANGED <<handle, parserHandle, fd, closer, failedAt, sent, queue>>
      BY <1>1, Zenon DEF Started, Step, memory, messages
    <3>2. /\ run' = [run EXCEPT !["parser"] = TRUE] /\ thread' = [thread EXCEPT !["parser"] = "check"]
          /\ run \in [Threads -> BOOLEAN]
          /\ thread \in [Threads -> {"none", "check", "work", "callback", "done"}]
      BY <1>1, Zenon DEF Started, LifecycleInvariant, TypeOK
    <3>3. /\ run'["parser"]
          /\ run'["read"] = run["read"] /\ run'["write"] = run["write"]
      BY <3>2, Zenon DEF Threads
    <3>4. /\ thread'["parser"] = "check"
          /\ thread'["read"] = thread["read"] /\ thread'["write"] = thread["write"]
      BY <3>2, Zenon DEF Threads
    <3>5. /\ run' \in [Threads -> BOOLEAN]
          /\ thread' \in [Threads -> {"none", "check", "work", "callback", "done"}]
      BY <1>1, StartedType, Zenon DEF LifecycleInvariant, Threads
    <3> QED
      BY <3>1, <3>3, <3>4, <3>5, Zenon
  <2> QED
    BY <2>1, ZenonT(60) DEF LifecycleInvariant, TypeOK, Resources, Outcome, ReadThreadPhase,
       WriteThreadPhase, ParserThreadPhase
<1>2. CASE ~Started("parser", "start parser", "opened")
  <2>1. /\ api = "start parser" /\ api' = "opened" /\ failedAt' = "start parser"
        /\ UNCHANGED <<handle, parserHandle, fd, run, thread, closer, sent, queue>>
    BY <1>2, Zenon DEF StartParser, Step, memory, messages
  <2> QED
    BY <2>1, ZenonT(60) DEF LifecycleInvariant, TypeOK, Resources, Outcome, ReadThreadPhase,
       WriteThreadPhase, ParserThreadPhase
<1> QED
  BY <1>1, <1>2, Zenon

\* A step of open.
LEMMA OpenStep ==
  ASSUME LifecycleInvariant, Open
  PROVE  LifecycleInvariant'
BY MallocKeeps, OpenDeviceKeeps, SetParamKeeps, StartReadKeeps, StartWriteKeeps, InitParserKeeps,
   StartParserKeeps, Zenon DEF Open

\* The parser thread is told to stop and waited for, or there is none.
LEMMA StopParserKeeps ==
  ASSUME LifecycleInvariant, StopParser
  PROVE  LifecycleInvariant'
<1> USE DEF OpenSteps, CloseSteps, ReadServes, WriteServes, ParserLive, ParserFreed, ReadOver, WriteOver,
            Alive
<1>1. CASE Stop("parser", "stop parser", "join parser", "free parser")
  <2>1. /\ api = "stop parser" /\ api' \in {"join parser", "free parser"}
        /\ api' = "free parser" => ~run["parser"]
        /\ UNCHANGED <<handle, parserHandle, fd, thread, closer, failedAt, sent, queue>>
        /\ run' \in [Threads -> BOOLEAN] /\ ~run'["parser"]
        /\ run'["read"] = run["read"] /\ run'["write"] = run["write"]
    <3>1. /\ api = "stop parser" /\ api' \in {"join parser", "free parser"}
          /\ api' = "free parser" => ~run["parser"]
          /\ UNCHANGED <<handle, parserHandle, fd, thread, closer, failedAt, sent, queue>>
      BY <1>1, Zenon DEF Stop, CloseStep, Step, memory, messages
    <3>2. run' = [run EXCEPT !["parser"] = FALSE] /\ run \in [Threads -> BOOLEAN]
      BY <1>1, Zenon DEF Stop, LifecycleInvariant, TypeOK
    <3>3. /\ run' \in [Threads -> BOOLEAN] /\ ~run'["parser"]
          /\ run'["read"] = run["read"] /\ run'["write"] = run["write"]
      BY <3>2, Zenon DEF Threads
    <3> QED
      BY <3>1, <3>3, Zenon
  <2>2. api' = "free parser" => ~Alive("parser")
    <3>1. ~run["parser"] => failedAt = "start parser"
      BY <2>1, Zenon DEF LifecycleInvariant, TypeOK, Outcome, ParserThreadPhase
    <3> QED
      BY <2>1, <3>1, Zenon DEF LifecycleInvariant, ParserThreadPhase
  <2>3. CASE api' = "join parser"
    BY <2>1, <2>3, ZenonT(60) DEF LifecycleInvariant, TypeOK, Resources, Outcome, ReadThreadPhase,
       WriteThreadPhase, ParserThreadPhase
  <2>4. CASE api' = "free parser"
    BY <2>1, <2>2, <2>4, ZenonT(60) DEF LifecycleInvariant, TypeOK, Resources, Outcome, ReadThreadPhase,
       WriteThreadPhase, ParserThreadPhase
  <2> QED
    BY <2>1, <2>3, <2>4, Zenon
<1>2. CASE Join("parser", "join parser", "free parser")
  <2>1. /\ api = "join parser" /\ api' = "free parser"
        /\ thread["parser"] = "done" \/ closer = "callback"
        /\ UNCHANGED <<handle, parserHandle, fd, run, thread, closer, failedAt, sent, queue>>
    BY <1>2, Zenon DEF Join, JoinReturns, CloseStep, Step, memory, messages
  <2> QED
    BY <2>1, ZenonT(60) DEF LifecycleInvariant, TypeOK, Resources, Outcome, ReadThreadPhase,
       WriteThreadPhase, ParserThreadPhase
<1> QED
  BY <1>1, <1>2, Zenon DEF StopParser

\* The parser's handle is freed.
LEMMA FreeParserKeeps ==
  ASSUME LifecycleInvariant, FreeParser
  PROVE  LifecycleInvariant'
<1> USE DEF OpenSteps, CloseSteps, ReadServes, WriteServes, ParserLive, ParserFreed, ReadOver, WriteOver,
            Alive
<1>1. /\ api = "free parser" /\ api' = "stop read" /\ parserHandle' = "freed"
      /\ UNCHANGED <<handle, fd, run, thread, closer, failedAt, sent, queue>>
  BY Zenon DEF FreeParser, CloseStep, Step, memory, messages
<1> QED
  BY <1>1, ZenonT(60) DEF LifecycleInvariant, TypeOK, Resources, Outcome, ReadThreadPhase,
     WriteThreadPhase, ParserThreadPhase

\* The read thread is told to stop and waited for.
LEMMA StopReadKeeps ==
  ASSUME LifecycleInvariant, StopRead
  PROVE  LifecycleInvariant'
<1> USE DEF OpenSteps, CloseSteps, ReadServes, WriteServes, ParserLive, ParserFreed, ReadOver, WriteOver,
            Alive
<1>1. /\ api \in {"stop read", "join read"} /\ api' \in {"join read", "stop write"}
      /\ api' = "stop write" => thread["read"] = "done"
      /\ UNCHANGED <<handle, parserHandle, fd, thread, closer, failedAt, sent, queue>>
      /\ run' \in [Threads -> BOOLEAN]
      /\ run'["write"] = run["write"] /\ run'["parser"] = run["parser"]
  <2>1. CASE Stop("read", "stop read", "join read", "stop write")
    <3>1. api = "stop read"
      BY <2>1, Zenon DEF Stop, CloseStep, Step
    <3>2. run["read"]
      BY <3>1, Zenon DEF LifecycleInvariant, ReadThreadPhase
    <3>3. run' = [run EXCEPT !["read"] = FALSE] /\ run \in [Threads -> BOOLEAN]
      BY <2>1, Zenon DEF Stop, LifecycleInvariant, TypeOK
    <3>4. /\ run' \in [Threads -> BOOLEAN]
          /\ run'["write"] = run["write"] /\ run'["parser"] = run["parser"]
      BY <3>3, Zenon DEF Threads
    <3>5. /\ api' = "join read"
          /\ UNCHANGED <<handle, parserHandle, fd, thread, closer, failedAt, sent, queue>>
      BY <2>1, <3>2, Zenon DEF Stop, CloseStep, Step, memory, messages
    <3> QED
      BY <3>1, <3>4, <3>5, Zenon
  <2>2. CASE Join("read", "join read", "stop write")
    BY <2>2, Zenon DEF Join, JoinReturns, CloseStep, Step, memory, messages, LifecycleInvariant,
                       TypeOK
  <2> QED
    BY <2>1, <2>2, Zenon DEF StopRead
<1> QED
  BY <1>1, ZenonT(60) DEF LifecycleInvariant, TypeOK, Resources, Outcome, ReadThreadPhase,
     WriteThreadPhase, ParserThreadPhase

\* The write thread is told to stop and waited for.
LEMMA StopWriteKeeps ==
  ASSUME LifecycleInvariant, StopWrite
  PROVE  LifecycleInvariant'
<1> USE DEF OpenSteps, CloseSteps, ReadServes, WriteServes, ParserLive, ParserFreed, ReadOver, WriteOver,
            Alive
<1>1. /\ api \in {"stop write", "join write"} /\ api' \in {"join write", "close device"}
      /\ api' = "close device" => thread["write"] = "done"
      /\ UNCHANGED <<handle, parserHandle, fd, thread, closer, failedAt, sent, queue>>
      /\ run' \in [Threads -> BOOLEAN]
      /\ run'["read"] = run["read"] /\ run'["parser"] = run["parser"]
  <2>1. CASE Stop("write", "stop write", "join write", "close device")
    <3>1. api = "stop write"
      BY <2>1, Zenon DEF Stop, CloseStep, Step
    <3>2. run["write"]
      BY <3>1, Zenon DEF LifecycleInvariant, WriteThreadPhase
    <3>3. run' = [run EXCEPT !["write"] = FALSE] /\ run \in [Threads -> BOOLEAN]
      BY <2>1, Zenon DEF Stop, LifecycleInvariant, TypeOK
    <3>4. /\ run' \in [Threads -> BOOLEAN]
          /\ run'["read"] = run["read"] /\ run'["parser"] = run["parser"]
      BY <3>3, Zenon DEF Threads
    <3>5. /\ api' = "join write"
          /\ UNCHANGED <<handle, parserHandle, fd, thread, closer, failedAt, sent, queue>>
      BY <2>1, <3>2, Zenon DEF Stop, CloseStep, Step, memory, messages
    <3> QED
      BY <3>1, <3>4, <3>5, Zenon
  <2>2. CASE Join("write", "join write", "close device")
    BY <2>2, Zenon DEF Join, JoinReturns, CloseStep, Step, memory, messages, LifecycleInvariant,
                       TypeOK
  <2> QED
    BY <2>1, <2>2, Zenon DEF StopWrite
<1> QED
  BY <1>1, ZenonT(60) DEF LifecycleInvariant, TypeOK, Resources, Outcome, ReadThreadPhase,
     WriteThreadPhase, ParserThreadPhase

\* The device is closed.
LEMMA CloseDeviceKeeps ==
  ASSUME LifecycleInvariant, CloseDevice
  PROVE  LifecycleInvariant'
<1> USE DEF OpenSteps, CloseSteps, ReadServes, WriteServes, ParserLive, ParserFreed, ReadOver, WriteOver,
            Alive
<1>1. /\ api = "close device" /\ api' = "free handle" /\ fd' = "closed"
      /\ UNCHANGED <<handle, parserHandle, run, thread, closer, failedAt, sent, queue>>
  BY Zenon DEF CloseDevice, CloseStep, Step, memory, messages
<1> QED
  BY <1>1, ZenonT(60) DEF LifecycleInvariant, TypeOK, Resources, Outcome, ReadThreadPhase,
     WriteThreadPhase, ParserThreadPhase

\* The memory is freed.
LEMMA FreeHandleKeeps ==
  ASSUME LifecycleInvariant, FreeHandle
  PROVE  LifecycleInvariant'
<1> USE DEF OpenSteps, CloseSteps, ReadServes, WriteServes, ParserLive, ParserFreed, ReadOver, WriteOver,
            Alive
<1>1. /\ api = "free handle" /\ api' = "closed" /\ handle' = "freed"
      /\ UNCHANGED <<parserHandle, fd, run, thread, closer, failedAt, sent, queue>>
  BY Zenon DEF FreeHandle, CloseStep, Step, memory, messages
<1> QED
  BY <1>1, ZenonT(60) DEF LifecycleInvariant, TypeOK, Resources, Outcome, ReadThreadPhase,
     WriteThreadPhase, ParserThreadPhase

\* A step of close.
LEMMA CloseKeeps ==
  ASSUME LifecycleInvariant, Close
  PROVE  LifecycleInvariant'
BY StopParserKeeps, FreeParserKeeps, StopReadKeeps, StopWriteKeeps, CloseDeviceKeeps,
   FreeHandleKeeps, Zenon DEF Close

\* Messages do not matter to the rest.
LEMMA StaysSame ==
  ASSUME LifecycleInvariant, UNCHANGED <<api, memory, fd, run, thread, closer, failedAt>>,
         sent' \in 0 .. MaxMessages /\ queue' \in 0 .. RingBytes
  PROVE  LifecycleInvariant'
<1>1. TypeOK'
  BY DEF LifecycleInvariant, TypeOK, memory
<1>2. Resources' /\ Outcome'
  BY DEF LifecycleInvariant, Resources, Outcome, memory
<1>3. ReadThreadPhase'
  BY Zenon DEF LifecycleInvariant, ReadThreadPhase, Alive
<1>4. WriteThreadPhase'
  BY Zenon DEF LifecycleInvariant, WriteThreadPhase, Alive
<1>5. ParserThreadPhase'
  BY Zenon DEF LifecycleInvariant, ParserThreadPhase, Alive
<1> QED
  BY <1>1, <1>2, <1>3, <1>4, <1>5, Zenon DEF LifecycleInvariant

\* The client and the callback send and close.
LEMMA ClientKeeps ==
  ASSUME LifecycleInvariant, ClientSends \/ ClientCloses \/ CallbackSends \/ CallbackCloses
  PROVE  LifecycleInvariant'
<1>1. CASE ClientSends \/ CallbackSends
  <2>1. UNCHANGED <<api, memory, fd, run, thread, closer, failedAt>>
    BY <1>1 DEF ClientSends, CallbackSends, Send
  <2>2. sent' \in 0 .. MaxMessages /\ queue' \in 0 .. RingBytes
    BY <1>1, LifecycleAssumption DEF ClientSends, CallbackSends, Send, LifecycleInvariant, TypeOK
  <2> QED
    BY <2>1, <2>2, StaysSame
<1>2. CASE ClientCloses \/ CallbackCloses
  <2> USE DEF OpenSteps, CloseSteps, ReadServes, WriteServes, ParserLive, ParserFreed, ReadOver, WriteOver,
              Alive
  <2>1. /\ api = "opened" /\ api' = "stop parser" /\ closer' \in {"client", "callback"}
        /\ UNCHANGED <<handle, parserHandle, fd, run, thread, failedAt, sent, queue>>
    BY <1>2, Zenon DEF ClientCloses, CallbackCloses, CallClose, Step, memory, messages
  <2> QED
    BY <2>1, ZenonT(60) DEF LifecycleInvariant, TypeOK, Resources, Outcome, ReadThreadPhase,
       WriteThreadPhase, ParserThreadPhase
<1> QED
  BY <1>1, <1>2

\* A thread goes on, or ends when its flag or its memory is gone.
LEMMA ThreadMoves ==
  ASSUME LifecycleInvariant, NEW t \in Threads, NEW from, NEW to \in {"check", "work", "callback", "done"},
         Moves(t, from, to), from \notin {"none", "done"}, UNCHANGED <<api, closer>>,
         to = "done" => ~run[t] \/ ~MemoryLive(t),
         sent' \in 0 .. MaxMessages /\ queue' \in 0 .. RingBytes
  PROVE  LifecycleInvariant'
<1> USE DEF OpenSteps, CloseSteps, ReadServes, WriteServes, ParserLive, ParserFreed, ReadOver, WriteOver,
            Alive
<1>1. /\ thread' \in [Threads -> {"none", "check", "work", "callback", "done"}]
      /\ thread'[t] = to /\ thread[t] \notin {"none", "done"}
      /\ \A u \in Threads : u # t => thread'[u] = thread[u]
      /\ UNCHANGED <<api, handle, parserHandle, fd, run, closer, failedAt>>
  <2>1. /\ thread' = [thread EXCEPT ![t] = to] /\ thread[t] = from
        /\ thread \in [Threads -> {"none", "check", "work", "callback", "done"}]
    BY Zenon DEF Moves, LifecycleInvariant, TypeOK
  <2>2. UNCHANGED <<api, handle, parserHandle, fd, run, closer, failedAt>>
    BY Zenon DEF Moves, memory
  <2>3. thread' \in [Threads -> {"none", "check", "work", "callback", "done"}]
    BY MovesType, Zenon DEF LifecycleInvariant
  <2>4. thread'[t] = to /\ \A u \in Threads : u # t => thread'[u] = thread[u]
    BY <2>1, Zenon
  <2> QED
    BY <2>1, <2>2, <2>3, <2>4, Zenon
<1>2. /\ api \in ReadServes \cup WriteServes => MemoryLive("read") /\ MemoryLive("write")
      /\ api \in {"opened", "stop parser"} => MemoryLive("parser")
  BY Zenon DEF LifecycleInvariant, Resources, MemoryLive
<1>3. TypeOK'
  <2> HIDE DEF OpenSteps, CloseSteps
  <2> QED
    BY <1>1, ZenonT(60) DEF LifecycleInvariant, TypeOK
<1>4. Resources'
  BY <1>1, Zenon DEF LifecycleInvariant, Resources
<1>5. Outcome'
  BY <1>1, Zenon DEF LifecycleInvariant, Outcome
<1>6. ReadThreadPhase'
  <2>1. CASE t = "read"
    <3>1. /\ thread'["read"] = to /\ thread["read"] \notin {"none", "done"}
          /\ to = "done" => ~run["read"] \/ ~MemoryLive("read")
      BY <1>1, <2>1, Zenon
    <3> QED
      BY <1>1, <1>2, <3>1, Zenon DEF LifecycleInvariant, ReadThreadPhase
  <2>2. CASE t # "read"
    <3>1. thread'["read"] = thread["read"]
      BY <1>1, <2>2, Zenon DEF Threads
    <3> QED
      BY <1>1, <3>1, Zenon DEF LifecycleInvariant, ReadThreadPhase
  <2> QED
    BY <2>1, <2>2, Zenon
<1>7. WriteThreadPhase'
  <2>1. CASE t = "write"
    <3>1. /\ thread'["write"] = to /\ thread["write"] \notin {"none", "done"}
          /\ to = "done" => ~run["write"] \/ ~MemoryLive("write")
      BY <1>1, <2>1, Zenon
    <3> QED
      BY <1>1, <1>2, <3>1, Zenon DEF LifecycleInvariant, WriteThreadPhase
  <2>2. CASE t # "write"
    <3>1. thread'["write"] = thread["write"]
      BY <1>1, <2>2, Zenon DEF Threads
    <3> QED
      BY <1>1, <3>1, Zenon DEF LifecycleInvariant, WriteThreadPhase
  <2> QED
    BY <2>1, <2>2, Zenon
<1>8. ParserThreadPhase'
  <2>1. CASE t = "parser"
    <3>1. /\ thread'["parser"] = to /\ thread["parser"] \notin {"none", "done"}
          /\ to = "done" => ~run["parser"] \/ ~MemoryLive("parser")
      BY <1>1, <2>1, Zenon
    <3> QED
      BY <1>1, <1>2, <3>1, Zenon DEF LifecycleInvariant, ParserThreadPhase
  <2>2. CASE t # "parser"
    <3>1. thread'["parser"] = thread["parser"]
      BY <1>1, <2>2, Zenon DEF Threads
    <3> QED
      BY <1>1, <3>1, Zenon DEF LifecycleInvariant, ParserThreadPhase
  <2> QED
    BY <2>1, <2>2, Zenon
<1> QED
  BY <1>3, <1>4, <1>5, <1>6, <1>7, <1>8, Zenon DEF LifecycleInvariant

LEMMA ThreadKeeps ==
  ASSUME LifecycleInvariant, ReadThread \/ WriteThread \/ Parser
  PROVE  LifecycleInvariant'
<1>1. sent \in 0 .. MaxMessages /\ queue \in 0 .. RingBytes
  BY DEF LifecycleInvariant, TypeOK
<1>2. ASSUME NEW t \in Threads, CheckFlag(t)
      PROVE  LifecycleInvariant'
  <2>1. PICK to \in {"work", "done"} :
            Moves(t, "check", to) /\ (to = "done" => ~run[t] \/ ~MemoryLive(t))
    BY <1>2 DEF CheckFlag
  <2>2. UNCHANGED <<api, closer, messages>>
    BY <1>2 DEF CheckFlag
  <2> QED
    BY <1>1, <2>1, <2>2, ThreadMoves DEF messages
<1>3. ASSUME NEW t \in Threads, NEW from \in {"work", "callback"}, NEW to \in {"check", "callback"},
             Moves(t, from, to), UNCHANGED <<api, closer, messages>>
      PROVE  LifecycleInvariant'
  BY <1>1, <1>3, ThreadMoves DEF messages
<1>4. CASE ReadThread
  BY <1>2, <1>3, <1>4 DEF ReadThread, Threads
<1>5. CASE WriteThread
  <2>1. CASE CheckFlag("write")
    BY <1>2, <2>1 DEF Threads
  <2>2. CASE PopChunk
    <3>1. Moves("write", "work", "check") /\ UNCHANGED <<api, closer, sent>>
      BY <2>2 DEF PopChunk
    <3>2. queue' \in 0 .. RingBytes
      BY <1>1, <2>2, LifecycleAssumption DEF PopChunk, Popped
    <3> QED
      BY <1>1, <3>1, <3>2, ThreadMoves DEF Threads
  <2>3. CASE WriteNothing
    BY <1>3, <2>3 DEF WriteNothing, Threads
  <2> QED
    BY <1>5, <2>1, <2>2, <2>3 DEF WriteThread
<1>6. CASE Parser
  BY <1>2, <1>3, <1>6 DEF Parser, ParserThread, CallbackReturns, Threads
<1> QED
  BY <1>4, <1>5, <1>6

LEMMA InvariantStep == LifecycleInvariant /\ [Next]_vars => LifecycleInvariant'
<1>1. ASSUME LifecycleInvariant, UNCHANGED vars
      PROVE  LifecycleInvariant'
  <2>1. sent' \in 0 .. MaxMessages /\ queue' \in 0 .. RingBytes
    BY <1>1 DEF LifecycleInvariant, TypeOK, vars, messages
  <2> QED
    BY <1>1, <2>1, StaysSame DEF vars
<1> QED
  BY <1>1, OpenStep, CloseKeeps, ClientKeeps, ThreadKeeps DEF Next

-----------------------------------------------------------------------------
(* The invariant of Lifecycle holds, whatever step of open fails, whoever  *)
(* sends and closes, and however many messages there are.                  *)
THEOREM LifecycleCorrect == Spec => []LifecycleInvariant
  BY InvariantInit, InvariantStep, PTL DEF Spec

(* The variables of Lifecycle have their types, and the write ring never   *)
(* holds more than it has room for or less than nothing.                   *)
THEOREM TypeCorrect == Spec => []TypeOK
  BY LifecycleCorrect, PTL DEF LifecycleInvariant

(* The memory of a handle outlives the threads that work on it, but for a  *)
(* failed open and a close from the callback, as the invariant says.       *)
THEOREM NoUseAfterFree == Spec => []MemoryOutlivesThreads
<1>1. LifecycleInvariant => MemoryOutlivesThreads
  BY ZenonT(60) DEF LifecycleInvariant, TypeOK, Resources, Outcome, ReadThreadPhase, WriteThreadPhase,
         ParserThreadPhase, Alive, OpenSteps, CloseSteps, Threads, ReadServes, WriteServes,
         ParserLive, ParserFreed, ReadOver, WriteOver, MemoryOutlivesThreads, MemoryLive
<1> QED
  BY <1>1, LifecycleCorrect, PTL

(* ReadThread and WriteThread never touch the descriptor after its close.  *)
THEOREM NoUseAfterClose == Spec => []DeviceOutlivesThreads
<1>1. LifecycleInvariant => DeviceOutlivesThreads
  BY DEF LifecycleInvariant, Resources, ReadThreadPhase, WriteThreadPhase, Alive,
         ReadOver, WriteOver, DeviceOutlivesThreads
<1> QED
  BY <1>1, LifecycleCorrect, PTL

(* close joins no thread that was not created.                             *)
THEOREM NoStrayJoin == Spec => []JoinsOnlyCreated
<1>1. LifecycleInvariant => JoinsOnlyCreated
  BY DEF LifecycleInvariant, TypeOK, Outcome, ReadThreadPhase, WriteThreadPhase,
         ParserThreadPhase, Alive, OpenSteps, CloseSteps, Threads, ReadServes, WriteServes,
         ReadOver, WriteOver, JoinsOnlyCreated
<1> QED
  BY <1>1, LifecycleCorrect, PTL

(* When the client's close returns, the handle and the decoder's handle    *)
(* are freed, the device is closed and no thread is left, however open     *)
(* went and whatever the threads were doing.                               *)
THEOREM NothingLeft == Spec => []CloseReleasesAll
<1>1. LifecycleInvariant => CloseReleasesAll
  BY DEF LifecycleInvariant, TypeOK, Resources, Outcome, ReadThreadPhase, WriteThreadPhase,
         ParserThreadPhase, Alive, Threads, ParserFreed, ReadOver, WriteOver, CloseReleasesAll
<1> QED
  BY <1>1, LifecycleCorrect, PTL

(* While a handle is open its threads run: none can miss its flag at its   *)
(* start, and only the parser thread may not have been created.            *)
THEOREM OpenHandleServes == Spec => []OpenServes
<1>1. LifecycleInvariant => OpenServes
  BY DEF LifecycleInvariant, TypeOK, Outcome, ReadThreadPhase, WriteThreadPhase,
         ParserThreadPhase, Alive, Threads, ReadServes, WriteServes, OpenSteps, OpenServes
<1> QED
  BY <1>1, LifecycleCorrect, PTL
=============================================================================
