----------------------------- MODULE RpmbProofs -----------------------------
(***************************************************************************)
(* Theorems about the RPMB objects, for any keys, counter limit, region    *)
(* size and performance runs.                                              *)
(***************************************************************************)
EXTENDS Rpmb, TLAPS

USE RpmbAssumption DEF Objects, Copies, Counters, history

Ops == Operations \ {"perf"}

CallType ==
  [op : Ops \cup {"perf", NONE}, object : Objects \cup {"perf", NONE}, for : {"init", "again", NONE},
   step : {"idle", "request", "answer", "draw", "sdk"}, sure : BOOLEAN, proven : BOOLEAN]

AnswerType == [type : Ops \cup {NONE}, result : Codes \cup {NONE}, counter : Counters]

TypeOK ==
  /\ device \in [mode : {"normal", "advanced"}, key : Keys \cup {NONE}, counter : Counters]
  /\ register \in AnswerType /\ answer \in AnswerType
  /\ copy \in [Copies -> Nat]
  /\ key \in [Objects -> Keys]
  /\ call \in CallType
  /\ told \in [Copies -> Counters \cup {NONE}] /\ taken \in [Objects -> Keys \cup {NONE}]
  /\ lost \subseteq {"counter", "key"}

CallInv ==
  /\ call.step = "idle" => call = NoCall
  /\ Running => call.op \in Ops /\ call.object \in Objects
  /\ call.op = "write" => call.object = "rpmb"
  /\ call.step \in {"draw", "sdk"} <=> call.op = "perf"
  /\ call.op # "perf" => run = NoRun
  /\ key["inner"] = DefaultKey

(* What a package holds: the request of the call alone or with the two     *)
(* commands that fetch its result, or the second package of a read.        *)
InCommand == [Command("in") EXCEPT !.answers = TRUE]

IsRequest(c) ==
  /\ c.op = call.op
  /\ c.op \in {"key", "write"} => c.key = key[call.object]
  /\ c.op = "write" => c.counter = copy[call.object]

Alone(c) == cmds = <<c>> /\ (c.answers \/ call.step = "request")

WithResult(c) == cmds = <<c, Waiting(Command("result")), Waiting(InCommand)>> /\ ~c.answers

PackageInv ==
  Running =>
    /\ executed \subseteq DOMAIN cmds /\ (executed # {} => 1 \in executed)
    /\ \/ \E c : IsRequest(c) /\ (Alone(c) \/ WithResult(c))
       \/ cmds = <<InCommand>>

(* The request of the call was executed.                                   *)
Requested == 1 \in executed \/ cmds[1].op = "in"

OfCall(a) ==
  /\ a.type = call.op
  /\ a.type # "key" => a.counter = device.counter
  /\ a.type \in {"key", "write"} /\ a.result = "OK" => device.key = key[call.object]

AnswerInv ==
  Running =>
    /\ Requested => OfCall(register)
    /\ \A i \in executed : cmds[i].answers => OfCall(answer)
    /\ ~Requested /\ call.op = "write" =>
         /\ call.sure => Sure("rpmb")
         /\ call.proven => Proven("rpmb")

IsRun ==
  run = [request |-> run.request, pool |-> run.pool, left |-> run.left, entries |-> run.entries,
         issued |-> run.issued]

(* Once an entry was written the device's counter is ahead of the copy by  *)
(* the entries issued.                                                     *)
RunInv ==
  call.op = "perf" =>
    /\ IsRun /\ run.request \in PerfRequests
    /\ run.entries \in Seq(Int) /\ run.issued \in Nat /\ run.issued <= Drawn
    /\ call.step = "draw" => run.issued = 0
    /\ call.step = "sdk" => Drawn = Entries(run.request)
    /\ run.request.write =>
         IF run.issued = 0 THEN call.sure => Sure("inner")
         ELSE device.counter = copy["perf"] + run.issued /\ device.key = DefaultKey
    /\ call.proven => Proven("inner")

(* The blocks left to draw from, and those drawn, lie in the range; where  *)
(* no two entries may overlap, no two of them all do.                      *)
InRange(r, lba) == lba \in Int /\ r.first <= lba /\ lba + r.chunk - 1 <= r.last

Apart(r, a, b) == a + r.chunk <= b \/ b + r.chunk <= a

AllApart(r) == r.random => r.aligned /\ ~r.overlap

PoolInv(r) ==
  /\ run.left \in Int /\ run.left <= PoolSize(r)
  /\ DOMAIN run.pool = 1 .. PoolSize(r)
  /\ \A i \in 1 .. run.left : InRange(r, run.pool[i])
  /\ AllApart(r) =>
       /\ \A i, j \in 1 .. run.left : i # j => Apart(r, run.pool[i], run.pool[j])
       /\ \A i \in 1 .. run.left, j \in DOMAIN run.entries : Apart(r, run.pool[i], run.entries[j])

EntriesInv(r) ==
  /\ \A i \in DOMAIN run.entries : InRange(r, run.entries[i])
  /\ AllApart(r) =>
       \A i, j \in DOMAIN run.entries : i # j => Apart(r, run.entries[i], run.entries[j])
  /\ ~r.random =>
       /\ r.size <= r.last + 1 - r.first
       /\ \A i \in DOMAIN run.entries : run.entries[i] = r.first + (i - 1) * r.chunk

ChunkInv ==
  call.op = "perf" => /\ run.request.random => PoolInv(run.request)
                      /\ EntriesInv(run.request)

IInv == TypeOK /\ CopiesAreDevice /\ CallInv /\ PackageInv /\ AnswerInv /\ RunInv /\ ChunkInv

LEMMA NoneIsNoString == NONE # "perf" /\ NONE # "write" /\ NONE # "key" /\ NONE \notin Ops
  BY DEF Ops, Operations

LEMMA NoAnswerTyped == NoAnswer \in AnswerType
  BY DEF NoAnswer, AnswerType

LEMMA NoCallTyped == NoCall \in CallType
  BY DEF NoCall, CallType

LEMMA Initially == Init => IInv
<1> SUFFICES ASSUME Init PROVE IInv
  OBVIOUS
<1>1. TypeOK
  BY NoAnswerTyped, NoCallTyped DEF Init, TypeOK, Untold
<1>2. CopiesAreDevice
  BY DEF Init, CopiesAreDevice, Untold
<1>3. call.step = "idle" /\ call.op = NONE
  BY DEF Init, NoCall
<1>4. CallInv
  BY <1>3, NoneIsNoString DEF Init, CallInv, Running
<1> QED BY <1>1, <1>2, <1>3, <1>4, NoneIsNoString DEF IInv, PackageInv, AnswerInv, RunInv, ChunkInv, Running

(* A call that ends leaves no package and no run to speak of.              *)
LEMMA CallEnds ==
  ASSUME Return, run' = NoRun, TypeOK', CopiesAreDevice', key'["inner"] = DefaultKey
  PROVE  IInv'
<1>1. call'.step = "idle" /\ call'.op = NONE
  BY DEF Return, NoCall
<1>2. CallInv'
  BY <1>1, NoneIsNoString DEF CallInv, Running, Return
<1> QED BY <1>1, <1>2, NoneIsNoString DEF IInv, PackageInv, AnswerInv, RunInv, ChunkInv, Running

LEMMA ReturnTyped == Return => register' \in AnswerType /\ answer' \in AnswerType /\ call' \in CallType
  BY NoAnswerTyped, NoCallTyped DEF Return

CommandType ==
  [op : Ops \cup {"result", "in"}, key : Keys \cup {NONE}, counter : Nat, fits : BOOLEAN,
   waits : BOOLEAN, answers : BOOLEAN]

(* A request as the methods make it.                                       *)
Request(c) == c \in CommandType /\ c.op \in Ops /\ c.answers = FALSE

LEMMA PackageHolds ==
  ASSUME NEW request, Request(request)
  PROVE  \E c : /\ c.op = request.op /\ c.key = request.key /\ c.counter = request.counter
                /\ \/ Package(request) = <<c>> /\ (c.answers \/ (~Advanced /\ request.op \in {"counter", "read"}))
                   \/ /\ Package(request) = <<c, Waiting(Command("result")), Waiting(InCommand)>>
                      /\ ~c.answers
<1>1. CASE Advanced
  <2> DEFINE r == [request EXCEPT !.answers = TRUE]
  <2>1. r.op = request.op /\ r.key = request.key /\ r.counter = request.counter /\ r.answers
    BY DEF Request, CommandType
  <2>2. Package(request) = <<r>>
    BY <1>1 DEF Package
  <2> QED BY <2>1, <2>2
<1>2. CASE ~Advanced /\ request.op \in {"key", "write"}
  <2>1. /\ Waiting(request).op = request.op /\ Waiting(request).key = request.key
        /\ Waiting(request).counter = request.counter /\ ~Waiting(request).answers
    BY DEF Request, CommandType, Waiting
  <2>2. Package(request) = <<Waiting(request), Waiting(Command("result")), Waiting(InCommand)>>
    BY <1>2 DEF Package, InCommand
  <2> QED BY <2>1, <2>2
<1>3. CASE ~Advanced /\ request.op \notin {"key", "write"}
  <2>1. Package(request) = <<request>> /\ request.op \in {"counter", "read"}
    BY <1>3 DEF Package, Request, Ops, Operations
  <2> QED BY <2>1, <1>3
<1> QED BY <1>1, <1>2, <1>3

LEMMA Sends ==
  ASSUME NEW object \in Objects, NEW request, NEW for \in {"init", "again", NONE},
         Send(object, request, for), Request(request), run' = NoRun,
         TypeOK', CopiesAreDevice', key'["inner"] = DefaultKey, device' = device,
         request.op \in {"key", "write"} => request.key = key'[object],
         request.op = "write" => /\ object = "rpmb" /\ request.counter = copy'[object]
                                 /\ UNCHANGED history
  PROVE  IInv'
<1>1. /\ call'.op = request.op /\ call'.object = object
      /\ call'.sure = Sure(object) /\ call'.proven = Proven(object)
      /\ call'.step = IF ~Advanced /\ request.op \in {"counter", "read"} THEN "request" ELSE "answer"
      /\ cmds' = Package(request) /\ executed' = {}
  BY DEF Send
<1>2. request.op # "perf" /\ call'.step \in {"request", "answer"}
  BY <1>1 DEF Request, Ops, Operations
<1>3. CallInv'
  <2>1. request.op \in Ops
    BY DEF Request
  <2> QED BY <1>1, <1>2, <2>1 DEF CallInv
<1>4. PackageInv'
  <2>1. PICK c : /\ c.op = request.op /\ c.key = request.key /\ c.counter = request.counter
                 /\ \/ Package(request) = <<c>> /\ (c.answers \/ (~Advanced /\ request.op \in {"counter", "read"}))
                    \/ /\ Package(request) = <<c, Waiting(Command("result")), Waiting(InCommand)>>
                       /\ ~c.answers
    BY PackageHolds
  <2>2. IsRequest(c)'
    BY <1>1, <2>1 DEF IsRequest
  <2>3. (Alone(c) \/ WithResult(c))'
    BY <1>1, <2>1 DEF Alone, WithResult, InCommand, Command, Waiting
  <2> QED BY <1>1, <2>2, <2>3 DEF PackageInv
<1>5. AnswerInv'
  <2>1. cmds'[1].op = request.op
    <3>1. PICK c : /\ c.op = request.op
                   /\ \/ Package(request) = <<c>>
                      \/ Package(request) = <<c, Waiting(Command("result")), Waiting(InCommand)>>
      BY PackageHolds
    <3> QED BY <1>1, <3>1
  <2>2. ~Requested'
    BY <1>1, <2>1 DEF Requested, Request, Ops, Operations
  <2>3. request.op = "write" => Sure("rpmb")' = Sure("rpmb") /\ Proven("rpmb")' = Proven("rpmb")
    BY DEF Sure, Proven, history
  <2> QED BY <1>1, <2>2, <2>3 DEF AnswerInv
<1>6. RunInv' /\ ChunkInv'
  BY <1>1, <1>2 DEF RunInv, ChunkInv
<1> QED BY <1>3, <1>4, <1>5, <1>6 DEF IInv

(* A method is called while no call runs: either it sends or it raises.    *)
LEMMA Enqueues ==
  ASSUME NEW object \in Objects, NEW request, NEW for \in {"init", "again", NONE},
         Enqueue(object, request, for), Request(request), run' = NoRun,
         TypeOK', CopiesAreDevice', key'["inner"] = DefaultKey, device' = device,
         request.op \in {"key", "write"} => request.key = key'[object],
         request.op = "write" => /\ object = "rpmb" /\ request.counter = copy'[object]
                                 /\ UNCHANGED history
  PROVE  IInv'
<1>1. CASE sent
  BY <1>1, CallEnds DEF Enqueue, Raise
<1>2. CASE ~sent
  BY <1>2, Sends DEF Enqueue
<1> QED BY <1>1, <1>2

LEMMA SendTyped ==
  ASSUME NEW object \in Objects, NEW request, NEW for \in {"init", "again", NONE}, Request(request)
  PROVE  /\ Send(object, request, for) =>
              register' \in AnswerType /\ answer' \in AnswerType /\ call' \in CallType
         /\ Enqueue(object, request, for) =>
              register' \in AnswerType /\ answer' \in AnswerType /\ call' \in CallType
<1>1. Send(object, request, for) =>
        register' \in AnswerType /\ answer' \in AnswerType /\ call' \in CallType
  BY NoAnswerTyped DEF Send, CallType, Request, Sure, Proven
<1> QED BY <1>1, ReturnTyped DEF Enqueue, Raise

LEMMA Requests ==
  /\ Request(Command("counter")) /\ Command("counter").op = "counter"
  /\ Request(Command("read")) /\ Command("read").op = "read"
  /\ \A k \in Keys : /\ Request(ProgramRequest(k)) /\ ProgramRequest(k).op = "key"
                     /\ ProgramRequest(k).key = k
  BY DEF Request, CommandType, Command, ProgramRequest, Ops, Operations

-----------------------------------------------------------------------------
(* Steps of a pattern and of the methods.                                  *)

LEMMA NoRunRuns ==
  ASSUME IInv, Idle \/ Running
  PROVE  run = NoRun /\ key["inner"] = DefaultKey
<1>1. CASE Idle
  BY <1>1, NoneIsNoString DEF IInv, CallInv, Idle, NoCall
<1>2. CASE Running
  BY <1>2 DEF IInv, CallInv, Ops, Running
<1> QED BY <1>1, <1>2

(* A call that ends with nothing learnt.                                   *)
LEMMA Raised ==
  ASSUME IInv, Running, Return, UNCHANGED <<device, copy, key, run, told, taken, lost>>
  PROVE  IInv'
<1>1. TypeOK'
  BY ReturnTyped DEF IInv, TypeOK
<1>2. CopiesAreDevice'
  BY DEF IInv, CopiesAreDevice
<1> QED BY <1>1, <1>2, NoRunRuns, CallEnds

LEMMA PatternClearsKeeps == ASSUME IInv, PatternClears PROVE IInv'
<1>1. ~Running /\ ~Running'
  BY DEF PatternClears, Idle, NoCall, Running
<1>2. TypeOK' /\ CopiesAreDevice' /\ CallInv'
  BY <1>1 DEF PatternClears, IInv, TypeOK, CopiesAreDevice, CallInv
<1>3. RunInv' /\ ChunkInv'
  BY NoneIsNoString DEF PatternClears, Idle, NoCall, RunInv, ChunkInv
<1> QED BY <1>1, <1>2, <1>3 DEF IInv, PackageInv, AnswerInv

LEMMA NewObjectKeeps == ASSUME IInv, NEW object \in Objects, NewObject(object) PROVE IInv'
<1>1. ~Running /\ ~Running' /\ call'.op = NONE
  BY DEF NewObject, Idle, NoCall, Running
<1>2. TypeOK' /\ CopiesAreDevice'
  BY DEF NewObject, IInv, TypeOK, CopiesAreDevice, Counter
<1>3. CallInv' /\ RunInv' /\ ChunkInv'
  BY <1>1, NoneIsNoString DEF NewObject, IInv, TypeOK, CallInv, RunInv, ChunkInv
<1> QED BY <1>1, <1>2, <1>3 DEF IInv, PackageInv, AnswerInv

LEMMA ReadCounterKeeps ==
  ASSUME IInv, NEW object \in Objects, NEW for \in {"init", NONE}, ReadCounter(object, for)
  PROVE  IInv'
<1>1. TypeOK'
  BY SendTyped, Requests DEF ReadCounter, IInv, TypeOK
<1>2. CopiesAreDevice'
  BY DEF ReadCounter, IInv, CopiesAreDevice
<1>3. Enqueue(object, Command("counter"), for)
  BY DEF ReadCounter
<1>4. run' = NoRun /\ key'["inner"] = DefaultKey /\ device' = device
  BY NoRunRuns DEF ReadCounter
<1> QED BY <1>1, <1>2, <1>3, <1>4, Requests, Enqueues

LEMMA ReadDataKeeps == ASSUME IInv, NEW object \in Objects, ReadData(object) PROVE IInv'
<1>1. TypeOK'
  BY SendTyped, Requests DEF ReadData, IInv, TypeOK
<1>2. CopiesAreDevice'
  BY DEF ReadData, IInv, CopiesAreDevice
<1>3. Enqueue(object, Command("read"), NONE)
  BY DEF ReadData
<1>4. run' = NoRun /\ key'["inner"] = DefaultKey /\ device' = device
  BY NoRunRuns DEF ReadData
<1> QED BY <1>1, <1>2, <1>3, <1>4, Requests, Enqueues

LEMMA ProgramKeyKeeps == ASSUME IInv, NEW k \in Keys, ProgramKey("rpmb", k) PROVE IInv'
<1>1. TypeOK'
  BY SendTyped, Requests DEF ProgramKey, IInv, TypeOK
<1>2. CopiesAreDevice'
  BY DEF ProgramKey, IInv, CopiesAreDevice, TypeOK
<1>3. Enqueue("rpmb", ProgramRequest(k), NONE)
  BY DEF ProgramKey
<1>4. run' = NoRun /\ key'["inner"] = DefaultKey /\ device' = device /\ key'["rpmb"] = k
  BY NoRunRuns DEF ProgramKey, IInv, TypeOK
<1> QED BY <1>1, <1>2, <1>3, <1>4, Requests, Enqueues

LEMMA RpmbResetKeeps == ASSUME IInv, RpmbReset PROVE IInv'
<1>1. key["inner"] \in Keys
  BY DEF IInv, TypeOK
<1>2. Enqueue("inner", ProgramRequest(key["inner"]), NONE)
  BY DEF RpmbReset
<1>3. TypeOK'
  BY <1>1, SendTyped, Requests DEF RpmbReset, IInv, TypeOK
<1>4. CopiesAreDevice'
  BY DEF RpmbReset, IInv, CopiesAreDevice, TypeOK
<1>5. run' = NoRun /\ key'["inner"] = DefaultKey /\ device' = device /\ key' = key
  BY NoRunRuns DEF RpmbReset
<1> QED BY <1>1, <1>2, <1>3, <1>4, <1>5, Requests, Enqueues

LEMMA WriteDataKeeps == ASSUME IInv, NEW fits \in BOOLEAN, WriteData("rpmb", fits) PROVE IInv'
<1> DEFINE c == [Command("write") EXCEPT !.key = key["rpmb"], !.counter = copy["rpmb"], !.fits = fits]
<1>1. Request(c) /\ c.op = "write" /\ c.key = key["rpmb"] /\ c.counter = copy["rpmb"]
  BY DEF Request, CommandType, Command, Ops, Operations, IInv, TypeOK
<1>2. Enqueue("rpmb", c, NONE)
  BY DEF WriteData
<1>3. UNCHANGED <<device, copy, key, run, told, taken, lost>> /\ Idle
  BY DEF WriteData
<1> HIDE DEF c
<1>4. TypeOK'
  BY <1>1, <1>2, <1>3, SendTyped DEF IInv, TypeOK
<1>5. CopiesAreDevice'
  BY <1>3 DEF IInv, CopiesAreDevice
<1>6. run' = NoRun /\ key'["inner"] = DefaultKey
  BY <1>3, NoRunRuns
<1> QED BY <1>1, <1>2, <1>3, <1>4, <1>5, <1>6, Enqueues

LEMMA VendorKeeps ==
  ASSUME IInv, VucClearRpmbKey \/ \E n \in Counters : VucSetWriteCounter(n)
  PROVE  IInv'
<1>1. ~Running /\ ~Running' /\ call'.op = NONE /\ UNCHANGED <<call, key, run, copy, register, answer>>
  BY DEF VucClearRpmbKey, VucSetWriteCounter, Vendor, Idle, NoCall, Running
<1>2. told' = [o \in Copies |-> NONE] /\ lost' = lost
  BY DEF VucClearRpmbKey, VucSetWriteCounter, Vendor, Untold
<1>3. TypeOK'
  <2>1. \/ device' = device \/ device' = [device EXCEPT !.key = NONE, !.counter = 0]
        \/ \E n \in Counters : device' = [device EXCEPT !.counter = n]
    BY DEF VucClearRpmbKey, VucSetWriteCounter, Vendor
  <2>2. device' \in [mode : {"normal", "advanced"}, key : Keys \cup {NONE}, counter : Counters]
    <3>1. 0 \in Counters /\ device \in [mode : {"normal", "advanced"}, key : Keys \cup {NONE}, counter : Counters]
      BY DEF IInv, TypeOK
    <3> HIDE DEF Counters
    <3>2. CASE device' = [device EXCEPT !.key = NONE, !.counter = 0]
      BY <3>1, <3>2
    <3>3. CASE \E n \in Counters : device' = [device EXCEPT !.counter = n]
      BY <3>1, <3>3
    <3> QED BY <2>1, <3>1, <3>2, <3>3
  <2>3. taken' \in [Objects -> Keys \cup {NONE}]
    BY DEF VucClearRpmbKey, VucSetWriteCounter, IInv, TypeOK
  <2> QED BY <1>1, <1>2, <2>2, <2>3 DEF IInv, TypeOK
<1>4. CopiesAreDevice'
  <2>1. CASE VucClearRpmbKey
    BY <2>1, <1>2 DEF VucClearRpmbKey, CopiesAreDevice
  <2>2. CASE \E n \in Counters : VucSetWriteCounter(n)
    <3>1. device'.key = device.key /\ UNCHANGED <<key, taken>>
      BY <2>2 DEF VucSetWriteCounter, Vendor, IInv, TypeOK
    <3> QED BY <3>1, <1>2 DEF CopiesAreDevice, IInv
  <2> QED BY <2>1, <2>2
<1>5. CallInv' /\ RunInv' /\ ChunkInv'
  BY <1>1, NoneIsNoString DEF IInv, TypeOK, CallInv, RunInv, ChunkInv
<1> QED BY <1>1, <1>3, <1>4, <1>5 DEF IInv, PackageInv, AnswerInv

LEMMA RequestSentKeeps == ASSUME IInv, RequestSent PROVE IInv'
<1>1. Running /\ Running' /\ call'.op = call.op /\ call'.object = call.object /\ call'.step = "answer"
  BY DEF RequestSent, Running, IInv, TypeOK, CallType
<1>2. TypeOK' /\ CopiesAreDevice'
  BY DEF RequestSent, IInv, TypeOK, CallType, CopiesAreDevice
<1>3. CallInv' /\ RunInv' /\ ChunkInv'
  BY <1>1 DEF RequestSent, IInv, CallInv, RunInv, ChunkInv, Running, Ops, Operations
<1>4. PackageInv'
  BY <1>1 DEF RequestSent, PackageInv, InCommand
<1>5. Requested
  <2>1. 1 \in DOMAIN cmds
    BY <1>1 DEF IInv, PackageInv, Alone, WithResult
  <2> QED BY <2>1 DEF RequestSent, Requested
<1>6. OfCall(register)
  BY <1>1, <1>5 DEF IInv, AnswerInv
<1>7. OfCall(register)'
  BY <1>1, <1>6 DEF RequestSent, OfCall
<1>8. Requested'
  BY DEF RequestSent, Requested, Command
<1> QED BY <1>1, <1>2, <1>3, <1>4, <1>7, <1>8 DEF RequestSent, IInv, AnswerInv

(* What a completed call has read is its own answer.                       *)
LEMMA AnswerIsOwn ==
  ASSUME IInv, NEW op, Completed(op)
  PROVE  OfCall(answer) /\ call.op = op /\ call.object \in Objects /\ Running
<1>1. Running /\ call.op = op /\ call.step = "answer" /\ executed = DOMAIN cmds
  BY DEF Completed
<1>2. \E i \in executed : cmds[i].answers
  <2>1. CASE \E c : IsRequest(c) /\ Alone(c)
    BY <2>1, <1>1 DEF Alone
  <2>2. CASE \E c : IsRequest(c) /\ WithResult(c)
    <3>1. 3 \in DOMAIN cmds /\ cmds[3] = Waiting(InCommand)
      BY <2>2 DEF WithResult
    <3> QED BY <3>1, <1>1 DEF Waiting, InCommand, Command
  <2>3. CASE cmds = <<InCommand>>
    BY <2>3, <1>1 DEF InCommand, Command
  <2> QED BY <1>1, <2>1, <2>2, <2>3 DEF IInv, PackageInv
<1> QED BY <1>1, <1>2 DEF IInv, AnswerInv, CallInv

LEMMA CounterReadKeeps == ASSUME IInv, CounterRead PROVE IInv'
<1>1. OfCall(answer) /\ answer.type = "counter" /\ call.object \in Objects /\ Running
  BY AnswerIsOwn DEF CounterRead, Answered
<1>2. answer.counter = device.counter
  BY <1>1 DEF OfCall
<1> DEFINE o == Counter(call.object)
<1>3. o \in Copies
  BY DEF Counter
<1>4. /\ copy' = [copy EXCEPT ![o] = device.counter] /\ told' = [told EXCEPT ![o] = device.counter]
      /\ lost' = (IF o = "perf" THEN lost \ {"counter"} ELSE lost) /\ Return
  BY <1>2 DEF CounterRead
<1>5. UNCHANGED <<device, key, run, taken>>
  BY DEF CounterRead
<1> HIDE DEF o
<1>6. TypeOK'
  BY <1>3, <1>4, <1>5, ReturnTyped DEF IInv, TypeOK
<1>7. CopiesAreDevice'
  BY <1>3, <1>4, <1>5 DEF IInv, TypeOK, CopiesAreDevice
<1> QED BY <1>1, <1>4, <1>5, <1>6, <1>7, NoRunRuns, CallEnds

LEMMA CounterNotReadKeeps == ASSUME IInv, CounterNotRead PROVE IInv'
<1>1. Running /\ UNCHANGED <<device, copy, key, run, told, taken, lost>>
  BY DEF CounterNotRead, Completed
<1>2. CASE call.for = "init" /\ answer.result = "KEY_NOT_PROGRAMMED"
  <2>1. Send("inner", ProgramRequest(key["inner"]), "init") /\ key["inner"] \in Keys
    BY <1>2 DEF CounterNotRead, IInv, TypeOK
  <2>2. TypeOK'
    BY <1>1, <2>1, SendTyped, Requests DEF IInv, TypeOK
  <2>3. CopiesAreDevice'
    BY <1>1 DEF IInv, CopiesAreDevice
  <2> QED BY <1>1, <2>1, <2>2, <2>3, NoRunRuns, Requests, Sends
<1>3. CASE ~(call.for = "init" /\ answer.result = "KEY_NOT_PROGRAMMED")
  BY <1>1, <1>3, Raised DEF CounterNotRead, Raise
<1> QED BY <1>2, <1>3

(* A key the device has taken is the one it has.                           *)
LEMMA TakenKeeps ==
  ASSUME TypeOK, CopiesAreDevice, NEW o \in Objects, device.key = key[o], KeyTaken(o),
         UNCHANGED <<device, copy, key, told>>
  PROVE  /\ CopiesAreDevice'
         /\ taken' \in [Objects -> Keys \cup {NONE}] /\ lost' \subseteq {"counter", "key"}
<1>1. /\ taken' = [taken EXCEPT ![o] = key[o]] /\ taken' \in [Objects -> Keys \cup {NONE}]
      /\ lost' = (IF o = "rpmb" THEN lost \ {"key"} ELSE lost) /\ lost' \subseteq {"counter", "key"}
  BY DEF KeyTaken, TypeOK
<1>2. "counter" \in lost' <=> "counter" \in lost
  BY <1>1
<1>3. \A p \in Objects : taken'[p] # NONE =>
        /\ taken'[p] = device.key
        /\ key[p] = taken'[p] <=> ~(p = "rpmb" /\ "key" \in lost')
  BY <1>1 DEF CopiesAreDevice, TypeOK
<1>4. \A p \in Copies : told'[p] # NONE =>
        told'[p] = device'.counter /\ copy'[p] = IF p = "perf" /\ "counter" \in lost' THEN 0 ELSE told'[p]
  BY <1>2 DEF CopiesAreDevice
<1>5. \A p \in Objects : taken'[p] # NONE =>
        /\ taken'[p] = device'.key
        /\ key'[p] = taken'[p] <=> ~(p = "rpmb" /\ "key" \in lost')
  BY <1>3
<1> QED BY ONLY <1>1, <1>4, <1>5 DEF CopiesAreDevice

LEMMA KeyProgrammedKeeps == ASSUME IInv, KeyProgrammed PROVE IInv'
<1>1. OfCall(answer) /\ answer.type = "key" /\ answer.result = "OK" /\ call.object \in Objects /\ Running
  BY AnswerIsOwn DEF KeyProgrammed, Answered
<1>2. device.key = key[call.object]
  BY <1>1 DEF OfCall
<1>3. UNCHANGED <<device, copy, key, run, told>> /\ KeyTaken(call.object)
  BY DEF KeyProgrammed
<1>4. CopiesAreDevice' /\ taken' \in [Objects -> Keys \cup {NONE}] /\ lost' \subseteq {"counter", "key"}
  BY <1>1, <1>2, <1>3, TakenKeeps DEF IInv
<1>5. CASE call.for = "init"
  <2>1. Send("inner", Command("counter"), "again")
    BY <1>5 DEF KeyProgrammed
  <2>2. TypeOK'
    BY <1>3, <1>4, <2>1, SendTyped, Requests DEF IInv, TypeOK
  <2> QED BY <1>1, <1>3, <1>4, <2>1, <2>2, NoRunRuns, Requests, Sends
<1>6. CASE call.for # "init"
  <2>1. Return
    BY <1>6 DEF KeyProgrammed
  <2>2. TypeOK'
    BY <1>3, <1>4, <2>1, ReturnTyped DEF IInv, TypeOK
  <2> QED BY <1>1, <1>3, <1>4, <2>1, <2>2, NoRunRuns, CallEnds
<1> QED BY <1>5, <1>6

LEMMA DataWrittenKeeps == ASSUME IInv, DataWritten PROVE IInv'
<1>1. OfCall(answer) /\ call.op = "write" /\ Running
  BY AnswerIsOwn DEF DataWritten
<1>2. answer.counter = device.counter /\ call.object = "rpmb"
  BY <1>1 DEF OfCall, IInv, CallInv
<1>3. Return /\ UNCHANGED <<device, key, run>>
  BY DEF DataWritten, Raise
<1>4. CASE answer.result \in Raising
  <2>1. UNCHANGED <<copy, told, taken, lost>>
    BY <1>4 DEF DataWritten, Raising
  <2> QED BY <1>1, <1>3, <2>1, Raised
<1>5. CASE answer.result \notin Raising
  <2>1. copy' = [copy EXCEPT !["rpmb"] = device.counter] /\ told' = [told EXCEPT !["rpmb"] = device.counter]
    BY <1>2, <1>5 DEF DataWritten, CounterAnswered
  <2>2. /\ copy' \in [Copies -> Nat] /\ told' \in [Copies -> Counters \cup {NONE}]
        /\ \A o \in Copies : told'[o] # NONE =>
             told'[o] = device.counter /\ copy'[o] = IF o = "perf" /\ "counter" \in lost THEN 0 ELSE told'[o]
    BY <2>1 DEF IInv, TypeOK, CopiesAreDevice
  <2>3. /\ taken' \in [Objects -> Keys \cup {NONE}] /\ lost' \subseteq {"counter", "key"}
        /\ "counter" \in lost' <=> "counter" \in lost
        /\ \A o \in Objects : taken'[o] # NONE =>
             /\ taken'[o] = device.key
             /\ key[o] = taken'[o] <=> ~(o = "rpmb" /\ "key" \in lost')
    <3>1. CASE answer.result = "OK"
      <4>1. device.key = key["rpmb"] /\ key["rpmb"] \in Keys
        BY <1>1, <1>2, <3>1 DEF OfCall, IInv, TypeOK
      <4>2. taken' = [taken EXCEPT !["rpmb"] = key["rpmb"]] /\ lost' = lost \ {"key"}
        BY <1>2, <3>1 DEF DataWritten, KeyTaken
      <4> QED BY <4>1, <4>2 DEF IInv, TypeOK, CopiesAreDevice
    <3>2. CASE answer.result # "OK"
      <4>1. UNCHANGED <<taken, lost>>
        BY <3>2 DEF DataWritten
      <4> QED BY <4>1 DEF IInv, TypeOK, CopiesAreDevice
    <3> QED BY <3>1, <3>2
  <2>4. TypeOK'
    BY <1>3, <2>2, <2>3, ReturnTyped DEF IInv, TypeOK
  <2>5. CopiesAreDevice'
    BY <1>3, <2>2, <2>3 DEF CopiesAreDevice
  <2> QED BY <1>1, <1>3, <2>4, <2>5, NoRunRuns, CallEnds
<1> QED BY <1>4, <1>5

-----------------------------------------------------------------------------
(* The device. *)

(* What a request does.                                                    *)
LEMMA RequestFacts ==
  ASSUME device \in [mode : {"normal", "advanced"}, key : Keys \cup {NONE}, counter : Counters],
         NEW c, c.op \in Ops, c.op = "key" => c.key \in Keys, NEW result \in Results(c)
  PROVE  /\ After(c, result) \in [mode : {"normal", "advanced"}, key : Keys \cup {NONE}, counter : Counters]
         /\ Register(c, result) \in AnswerType
         /\ Register(c, result).type = c.op /\ Register(c, result).result = result
         /\ c.op # "key" => Register(c, result).counter = After(c, result).counter
         /\ c.op \in {"key", "write"} /\ result = "OK" => After(c, result).key = c.key
         /\ After(c, result).key # device.key => device.key = NONE
         /\ c.op # "key" => After(c, result).key = device.key
         /\ After(c, result).mode = device.mode
         /\ After(c, result).counter # device.counter =>
              /\ c.op = "write" /\ result = "OK" /\ c.counter = device.counter
              /\ After(c, result).counter = device.counter + 1
         /\ c.op = "write" /\ result = "OK" =>
              c.counter = device.counter /\ After(c, result).counter = device.counter + 1
         /\ result = "COUNTER_FAILURE" => c.op = "write" /\ c.counter # device.counter
         /\ result = "AUTHENTICATION_FAILURE" => c.op = "write" /\ c.key # device.key
<1>1. CASE c.op = "key"
  <2>1. \/ device.key = NONE /\ result \in {"OK", "GENERAL_FAILURE"}
        \/ result = "WRITE_FAILURE"
    BY <1>1 DEF Results
  <2>2. After(c, result) = IF result = "OK" THEN [device EXCEPT !.key = c.key] ELSE device
    BY <1>1 DEF After
  <2>3. Register(c, result) = [type |-> "key", result |-> result, counter |-> 0]
    BY <1>1 DEF Register
  <2> QED BY <1>1, <2>1, <2>2, <2>3 DEF AnswerType, Codes
<1>2. CASE c.op = "write"
  <2> DEFINE w == WriteResult(c.key, c.counter, c.fits)
  <2>1. result = w \/ (w = "OK" /\ result = "WRITE_FAILURE")
    BY <1>2 DEF Results
  <2>2. /\ w \in Codes
        /\ w = "OK" => device.counter # MaxCounter /\ c.counter = device.counter /\ c.key = device.key
        /\ w = "COUNTER_FAILURE" => c.counter # device.counter
        /\ w = "AUTHENTICATION_FAILURE" => c.key # device.key
    BY DEF WriteResult, Codes
  <2> HIDE DEF w
  <2>3. result \in Codes
    BY <2>1, <2>2 DEF Codes
  <2>4. After(c, result) = IF result = "OK" THEN [device EXCEPT !.counter = @ + 1] ELSE device
    BY <1>2 DEF After
  <2>5. /\ After(c, result) \in [mode : {"normal", "advanced"}, key : Keys \cup {NONE}, counter : Counters]
        /\ After(c, result).key = device.key /\ After(c, result).mode = device.mode
        /\ After(c, result).counter = IF result = "OK" THEN device.counter + 1 ELSE device.counter
    BY <2>1, <2>2, <2>4
  <2>6. Register(c, result) = [type |-> "write", result |-> result, counter |-> After(c, result).counter]
    BY <1>2 DEF Register
  <2>7. Register(c, result) \in AnswerType
    BY <1>2, <2>3, <2>5, <2>6 DEF AnswerType
  <2>8. result = "OK" => c.counter = device.counter /\ c.key = device.key
    BY <2>1, <2>2
  <2>9. device.counter \in Nat
    OBVIOUS
  <2> QED BY <1>2, <2>1, <2>2, <2>5, <2>6, <2>7, <2>8, <2>9
<1>3. CASE c.op \in {"counter", "read"}
  <2>1. result \in {"KEY_NOT_PROGRAMMED", "OK_EXPIRED", "OK", "READ_FAILURE"}
    BY <1>3 DEF Results
  <2>2. After(c, result) = device
    BY <1>3 DEF After
  <2>3. Register(c, result) = [type |-> c.op, result |-> result, counter |-> device.counter]
    BY <1>3, <2>2 DEF Register
  <2> QED BY <1>3, <2>1, <2>2, <2>3 DEF AnswerType, Codes
<1> QED BY <1>1, <1>2, <1>3 DEF Ops, Operations

(* What is still told is right when a request has run.                     *)
LEMMA CopiesSurvive ==
  ASSUME IInv, told' = StillTold, UNCHANGED <<copy, key, taken, lost>>,
         device'.key # device.key => device.key = NONE
  PROVE  CopiesAreDevice' /\ told' \in [Copies -> Counters \cup {NONE}]
<1>1. /\ told' \in [Copies -> Counters \cup {NONE}]
      /\ \A o \in Copies : told'[o] # NONE => told'[o] = told[o] /\ device'.counter = device.counter
  BY DEF IInv, TypeOK, StillTold, Untold
<1>2. \A o \in Objects : taken[o] # NONE => device'.key = device.key
  BY DEF IInv, CopiesAreDevice, TypeOK
<1> QED BY <1>1, <1>2 DEF IInv, CopiesAreDevice

LEMMA FetchCommands ==
  /\ Waiting(Command("result")).op = "result" /\ Waiting(Command("result")).waits = TRUE
  /\ Waiting(Command("result")).answers = FALSE
  /\ Waiting(InCommand).op = "in" /\ Waiting(InCommand).waits = TRUE
  /\ InCommand.op = "in"
  BY DEF Waiting, InCommand, Command

(* The result request and the read of the result come after the request.   *)
LEMMA FetchComesAfter ==
  ASSUME IInv, NEW i, Ready(i), cmds[i].op \in {"result", "in"}
  PROVE  Requested
<1>1. CASE cmds = <<InCommand>>
  BY <1>1 DEF Requested, InCommand, Command
<1>2. CASE \E c : IsRequest(c) /\ Alone(c)
  <2>1. cmds[1].op = call.op /\ i = 1
    BY <1>2 DEF Ready, IsRequest, Alone
  <2> QED BY <2>1 DEF Ready, IInv, CallInv, Ops, Operations
<1>3. CASE \E c : IsRequest(c) /\ WithResult(c)
  <2>1. cmds[1].op = call.op /\ i \in 1 .. 3 /\ cmds[2].waits /\ cmds[3].waits
    <3>1. PICK c : IsRequest(c) /\ WithResult(c)
      BY <1>3
    <3>2. cmds[1] = c /\ cmds[2] = Waiting(Command("result")) /\ cmds[3] = Waiting(InCommand) /\ DOMAIN cmds = 1 .. 3
      BY <3>1 DEF WithResult
    <3> QED BY <3>1, <3>2, FetchCommands DEF Ready, IsRequest
  <2>2. i # 1
    BY <2>1 DEF Ready, IInv, CallInv, Ops, Operations
  <2>3. 1 \in 1 .. i - 1 /\ cmds[i].waits
    BY <2>1, <2>2
  <2> QED BY <2>3 DEF Ready, Requested
<1> QED BY <1>1, <1>2, <1>3 DEF Ready, IInv, PackageInv

LEMMA RequestIsFirst ==
  ASSUME IInv, NEW i, Ready(i), cmds[i].op \notin {"result", "in"}
  PROVE  i = 1 /\ ~Requested /\ IsRequest(cmds[1]) /\ cmds[1].op \in Ops
<1>1. cmds # <<InCommand>>
  BY DEF Ready, InCommand, Command
<1>2. PICK c : IsRequest(c) /\ (Alone(c) \/ WithResult(c))
  BY <1>1 DEF Ready, IInv, PackageInv
<1>3. cmds[1] = c /\ i = 1
  <2>1. CASE Alone(c)
    BY <2>1 DEF Alone, Ready
  <2>2. CASE WithResult(c)
    <3>1. cmds[1] = c /\ cmds[2] = Waiting(Command("result")) /\ cmds[3] = Waiting(InCommand) /\ DOMAIN cmds = 1 .. 3
      BY <2>2 DEF WithResult
    <3> QED BY <3>1, FetchCommands DEF Ready
  <2> QED BY <1>2, <2>1, <2>2
<1>4. c.op \in Ops
  BY <1>2 DEF Ready, IsRequest, IInv, CallInv
<1> QED BY <1>2, <1>3, <1>4 DEF Ready, Requested, Ops, Operations

LEMMA ExecuteKeeps == ASSUME IInv, NEW i, Execute(i) PROVE IInv'
<1>1. Ready(i) /\ UNCHANGED <<copy, key, cmds, sent, call, run, taken, lost>>
  BY DEF Execute
<1>2. /\ executed' = executed \cup {i} /\ told' = StillTold
      /\ answer' = IF cmds[i].answers THEN register' ELSE answer
  BY DEF Execute
<1>3. Running /\ Running' /\ i \in DOMAIN cmds
  BY <1>1 DEF Ready, Running
<1>4. CallInv' /\ RunInv' /\ ChunkInv'
  BY <1>1, <1>3 DEF IInv, CallInv, RunInv, ChunkInv, Running, Ops
<1>5. PackageInv'
  <2>1. 1 \in executed'
    <3>1. CASE cmds = <<InCommand>>
      BY <3>1, <1>2, <1>3
    <3>2. CASE cmds # <<InCommand>> /\ cmds[i].op \in {"result", "in"}
      <4>1. PICK c : IsRequest(c) /\ (Alone(c) \/ WithResult(c))
        BY <1>3, <3>2 DEF IInv, PackageInv
      <4>2. cmds[1].op = call.op
        BY <4>1 DEF IsRequest, Alone, WithResult
      <4>3. cmds[1].op # "in"
        BY <1>3, <4>2 DEF IInv, CallInv, Ops, Operations
      <4> QED BY <1>1, <1>2, <3>2, <4>3, FetchComesAfter DEF Requested
    <3>3. CASE cmds[i].op \notin {"result", "in"}
      BY <1>1, <1>2, <3>3, RequestIsFirst
    <3> QED BY <3>1, <3>2, <3>3
  <2>2. /\ executed' \subseteq DOMAIN cmds
        /\ \/ \E c : IsRequest(c) /\ (Alone(c) \/ WithResult(c))
           \/ cmds = <<InCommand>>
    BY <1>2, <1>3 DEF IInv, PackageInv
  <2> QED BY <1>1, <2>1, <2>2 DEF PackageInv, IsRequest, Alone, WithResult
<1>6. CASE cmds[i].op \in {"result", "in"}
  <2>1. UNCHANGED <<device, register>>
    BY <1>6 DEF Execute
  <2>2. Requested /\ Requested'
    BY <1>1, <1>2, <1>6, FetchComesAfter DEF Requested
  <2>3. OfCall(register) /\ OfCall(register)'
    BY <1>1, <1>3, <2>1, <2>2 DEF IInv, AnswerInv, OfCall
  <2>4. AnswerInv'
    <3>1. ASSUME NEW j \in executed', cmds'[j].answers PROVE OfCall(answer)'
      <4>1. CASE cmds[i].answers
        BY <1>2, <2>3, <4>1 DEF OfCall
      <4>2. CASE ~cmds[i].answers
        <5>1. j \in executed /\ cmds[j].answers /\ answer' = answer
          BY <1>1, <1>2, <3>1, <4>2
        <5>2. OfCall(answer)
          BY <1>3, <5>1 DEF IInv, AnswerInv
        <5> QED BY <1>1, <2>1, <5>1, <5>2 DEF OfCall
      <4> QED BY <4>1, <4>2
    <3> QED BY <2>2, <2>3, <3>1 DEF AnswerInv
  <2>5. device'.key # device.key => device.key = NONE
    BY <2>1
  <2>6. CopiesAreDevice' /\ told' \in [Copies -> Counters \cup {NONE}]
    BY <1>1, <1>2, <2>5, CopiesSurvive
  <2>7. TypeOK'
    BY <1>1, <1>2, <2>1, <2>6 DEF IInv, TypeOK
  <2> QED BY <1>4, <1>5, <2>4, <2>6, <2>7 DEF IInv
<1>7. CASE cmds[i].op \notin {"result", "in"}
  <2> DEFINE c == cmds[1]
  <2>1. i = 1 /\ ~Requested /\ IsRequest(c) /\ c.op \in Ops
    BY <1>1, <1>7, RequestIsFirst
  <2>2. PICK result \in Results(c) : device' = After(c, result) /\ register' = Register(c, result)
    BY <1>7, <2>1 DEF Execute
  <2>3. c.op \in {"key", "write"} => c.key = key[call.object] /\ c.key \in Keys
    BY <1>3, <2>1 DEF IsRequest, IInv, TypeOK, CallInv
  <2>4. device \in [mode : {"normal", "advanced"}, key : Keys \cup {NONE}, counter : Counters]
    BY DEF IInv, TypeOK
  <2>5. /\ device' \in [mode : {"normal", "advanced"}, key : Keys \cup {NONE}, counter : Counters]
        /\ register' \in AnswerType /\ register'.type = c.op /\ register'.result = result
        /\ c.op # "key" => register'.counter = device'.counter
        /\ c.op \in {"key", "write"} /\ result = "OK" => device'.key = c.key
        /\ device'.key # device.key => device.key = NONE
    BY <2>1, <2>2, <2>3, <2>4, RequestFacts
  <2>6. OfCall(register)'
    BY <1>1, <2>1, <2>3, <2>5 DEF OfCall, IsRequest
  <2>7. executed' = {1}
    BY <1>2, <1>3, <2>1 DEF IInv, PackageInv, Requested
  <2>8. AnswerInv'
    <3>1. Requested'
      BY <2>7 DEF Requested
    <3>2. cmds'[1].answers => OfCall(answer)'
      BY <1>1, <1>2, <2>1, <2>6 DEF OfCall
    <3> QED BY <2>6, <2>7, <3>1, <3>2 DEF AnswerInv
  <2>9. CopiesAreDevice' /\ told' \in [Copies -> Counters \cup {NONE}]
    BY <1>1, <1>2, <2>5, CopiesSurvive
  <2>10. TypeOK'
    BY <1>1, <1>2, <2>5, <2>9 DEF IInv, TypeOK
  <2> QED BY <1>4, <1>5, <2>8, <2>9, <2>10 DEF IInv
<1> QED BY <1>6, <1>7

-----------------------------------------------------------------------------
(* The blocks of a performance run. *)

LEMMA Multiples == ASSUME NEW i \in Int, NEW j \in Int, NEW c \in Nat, i < j PROVE i * c + c <= j * c
<1>1. (j - i) * c >= c
  OBVIOUS
<1>2. (j - i) * c = j * c - i * c
  OBVIOUS
<1>3. i * c \in Int /\ j * c \in Int
  OBVIOUS
<1> QED BY <1>1, <1>2, <1>3

LEMMA Quotients ==
  ASSUME NEW s \in Int, NEW c \in Nat \ {0}
  PROVE  s \div c \in Int /\ (s \div c) * c <= s
  OBVIOUS

(* The blocks of a request fit its size.                                   *)
LEMMA EntriesFit ==
  ASSUME NEW r \in PerfType
  PROVE  Entries(r) \in Int /\ Entries(r) * r.chunk <= r.size
<1>1. r.size \in Int /\ r.chunk \in Nat \ {0}
  BY DEF PerfType
<1> QED BY ONLY <1>1, Quotients DEF Entries

(* Blocks i and j of a range cut into chunks.                              *)
LEMMA ChunksAreApart ==
  ASSUME NEW r \in PerfType, NEW i \in Int, NEW j \in Int, i # j
  PROVE  Apart(r, r.first + i * r.chunk, r.first + j * r.chunk)
<1>1. r.chunk \in Nat /\ r.first \in Int
  BY DEF PerfType
<1>2. i * r.chunk + r.chunk <= j * r.chunk \/ j * r.chunk + r.chunk <= i * r.chunk
  <2>1. CASE i < j
    BY <1>1, <2>1, Multiples
  <2>2. CASE j < i
    BY <1>1, <2>2, Multiples
  <2> QED BY <2>1, <2>2
<1>3. i * r.chunk \in Int /\ j * r.chunk \in Int
  BY <1>1
<1> QED BY <1>1, <1>2, <1>3 DEF Apart

LEMMA ChunkInRange ==
  ASSUME NEW r \in PerfType, NEW n \in Int, n * r.chunk <= r.last + 1 - r.first,
         NEW i \in 1 .. n
  PROVE  InRange(r, r.first + (i - 1) * r.chunk)
<1>1. r.chunk \in Nat /\ r.first \in Nat /\ r.last \in Nat
  BY DEF PerfType
<1>2. (i - 1) * r.chunk \in Nat /\ n * r.chunk \in Int
  BY <1>1
<1>3. (i - 1) * r.chunk + r.chunk <= n * r.chunk
  <2>1. i - 1 < n /\ i - 1 \in Int
    OBVIOUS
  <2> QED BY <1>1, <2>1, Multiples
<1> QED BY <1>1, <1>2, <1>3 DEF InRange

LEMMA PoolFacts ==
  ASSUME NEW r \in PerfType
  PROVE  /\ PoolSize(r) \in Int /\ DOMAIN Pool(r) = 1 .. PoolSize(r)
         /\ \A i \in 1 .. PoolSize(r) : InRange(r, Pool(r)[i])
         /\ r.aligned => \A i, j \in 1 .. PoolSize(r) : i # j => Apart(r, Pool(r)[i], Pool(r)[j])
<1>1. r.chunk \in Nat \ {0} /\ r.first \in Nat /\ r.last \in Nat
  BY DEF PerfType
<1>2. DOMAIN Pool(r) = 1 .. PoolSize(r)
  BY DEF Pool
<1>3. CASE r.aligned
  <2>1. PoolSize(r) = (r.last + 1 - r.first) \div r.chunk
    BY <1>3 DEF PoolSize
  <2>2. PoolSize(r) \in Int /\ PoolSize(r) * r.chunk <= r.last + 1 - r.first
    <3>1. r.last + 1 - r.first \in Int
      BY <1>1
    <3> QED BY <1>1, <2>1, <3>1, Quotients
  <2>3. \A i \in 1 .. PoolSize(r) : Pool(r)[i] = r.first + (i - 1) * r.chunk
    BY <1>3 DEF Pool
  <2>4. \A i \in 1 .. PoolSize(r) : InRange(r, Pool(r)[i])
    BY <2>2, <2>3, ChunkInRange
  <2>5. ASSUME NEW i \in 1 .. PoolSize(r), NEW j \in 1 .. PoolSize(r), i # j
        PROVE  Apart(r, Pool(r)[i], Pool(r)[j])
    <3>1. i - 1 \in Int /\ j - 1 \in Int /\ i - 1 # j - 1
      BY <2>2, <2>5
    <3> QED BY <2>3, <3>1, ChunksAreApart
  <2> QED BY <1>2, <2>2, <2>4, <2>5
<1>4. CASE ~r.aligned
  <2>1. PoolSize(r) = (r.last + 1 - r.chunk) - r.first
    BY <1>4 DEF PoolSize
  <2>2. \A i \in 1 .. PoolSize(r) : Pool(r)[i] = r.first + (i - 1)
    BY <1>4, <1>1, <2>1 DEF Pool
  <2>3. ASSUME NEW i \in 1 .. PoolSize(r) PROVE InRange(r, Pool(r)[i])
    <3>1. i \in Nat /\ i <= (r.last + 1 - r.chunk) - r.first /\ i >= 1
      BY <1>1, <2>1
    <3>2. Pool(r)[i] = r.first + (i - 1)
      BY <2>2
    <3> QED BY <1>1, <3>1, <3>2 DEF InRange
  <2> QED BY <1>1, <1>2, <1>4, <2>1, <2>3
<1> QED BY <1>3, <1>4

LEMMA ExecuterKeeps == ASSUME IInv, NEW r \in PerfRequests, Executer(r) PROVE IInv'
<1>1. /\ UNCHANGED <<device, register, copy, key, cmds, executed, sent, answer, told, taken, lost>>
      /\ ~NotSupported(r) /\ r \in PerfType
      /\ run' = [request |-> r, pool |-> Pool(r), left |-> PoolSize(r), entries |-> <<>>, issued |-> 0]
  BY DEF Executer
<1>2. /\ call'.op = "perf" /\ call'.step = "draw" /\ call' \in CallType
      /\ call'.sure = Sure("inner") /\ call'.proven = Proven("inner")
  BY NoCallTyped DEF Executer, NoCall, CallType, Sure, Proven
<1>3. TypeOK' /\ CopiesAreDevice'
  BY <1>1, <1>2 DEF IInv, TypeOK, CopiesAreDevice
<1>4. ~Running' /\ CallInv'
  BY <1>1, <1>2 DEF Running, IInv, CallInv
<1>5. RunInv'
  <2>1. IsRun'
    BY <1>1 DEF IsRun
  <2>2. run'.request = r /\ run'.entries = <<>> /\ run'.issued = 0
    BY <1>1
  <2>3. run'.entries \in Seq(Int) /\ run'.issued <= Drawn'
    BY <2>2 DEF Drawn
  <2>4. (call'.sure => Sure("inner")') /\ (call'.proven => Proven("inner")')
    BY <1>1, <1>2 DEF Sure, Proven
  <2> QED BY <1>1, <1>2, <2>1, <2>2, <2>3, <2>4 DEF RunInv
<1>6. ChunkInv'
  <2>1. run'.request = r /\ run'.entries = <<>> /\ run'.left = PoolSize(r) /\ run'.pool = Pool(r)
    BY <1>1
  <2>2. r.random => PoolInv(r)'
    BY <1>1, <2>1, PoolFacts DEF PoolInv, AllApart
  <2>3. EntriesInv(r)'
    <3>1. ~r.random => r.size <= r.last + 1 - r.first
      BY <1>1 DEF NotSupported, PerfType
    <3> QED BY <2>1, <3>1 DEF EntriesInv
  <2> QED BY <2>1, <2>2, <2>3 DEF ChunkInv, PoolInv, EntriesInv
<1> QED BY <1>3, <1>4, <1>5, <1>6 DEF IInv, PackageInv, AnswerInv

LEMMA DrawFacts ==
  ASSUME IsRun, run.entries \in Seq(Int), NEW lba \in Int, NEW pool, NEW left, Draw(lba, pool, left)
  PROVE  /\ IsRun' /\ run'.request = run.request /\ run'.issued = run.issued
         /\ run'.pool = pool /\ run'.left = left
         /\ run'.entries = Append(run.entries, lba) /\ run'.entries \in Seq(Int)
         /\ Drawn' = Drawn + 1 /\ DOMAIN run'.entries = 1 .. Drawn + 1
         /\ run'.entries[Drawn + 1] = lba
         /\ \A j \in 1 .. Drawn : run'.entries[j] = run.entries[j]
<1>1. run' = [request |-> run.request, pool |-> pool, left |-> left,
              entries |-> Append(run.entries, lba), issued |-> run.issued]
  BY DEF Draw, IsRun
<1>2. /\ run'.request = run.request /\ run'.issued = run.issued /\ run'.pool = pool /\ run'.left = left
      /\ run'.entries = Append(run.entries, lba)
  BY <1>1
<1>3. IsRun'
  BY <1>1, <1>2 DEF IsRun
<1> QED BY <1>2, <1>3 DEF Drawn

LEMMA DrawNextKeeps ==
  ASSUME IInv, call.op = "perf", Drawn < Entries(run.request), DrawNext
  PROVE  /\ IsRun' /\ run'.request = run.request /\ run'.issued = run.issued
         /\ run'.entries \in Seq(Int) /\ Drawn' = Drawn + 1
         /\ EntriesInv(run.request)' /\ ~run.request.random
<1> DEFINE r == run.request
           lba == r.first + Drawn * r.chunk
<1>1. r \in PerfType /\ IsRun /\ run.entries \in Seq(Int) /\ EntriesInv(r) /\ ~r.random
  BY DEF IInv, RunInv, ChunkInv, DrawNext
<1>2. r.chunk \in Nat \ {0} /\ r.first \in Nat /\ r.last \in Nat /\ r.size \in Nat
  BY <1>1 DEF PerfType
<1>3. Drawn \in Nat /\ lba \in Int /\ DOMAIN run.entries = 1 .. Drawn
  BY <1>1, <1>2 DEF Drawn
<1>4. Draw(lba, run.pool, run.left)
  BY DEF DrawNext
<1>5. /\ IsRun' /\ run'.request = r /\ run'.issued = run.issued
      /\ run'.entries \in Seq(Int) /\ Drawn' = Drawn + 1 /\ DOMAIN run'.entries = 1 .. Drawn + 1
      /\ run'.entries[Drawn + 1] = lba
      /\ \A j \in 1 .. Drawn : run'.entries[j] = run.entries[j]
  BY <1>1, <1>3, <1>4, DrawFacts
<1>6. \A i \in DOMAIN run'.entries : run'.entries[i] = r.first + (i - 1) * r.chunk
  <2>1. (Drawn + 1) - 1 = Drawn
    BY <1>3
  <2>2. \A i \in 1 .. Drawn : run'.entries[i] = r.first + (i - 1) * r.chunk
    BY <1>1, <1>3, <1>5 DEF EntriesInv
  <2>3. run'.entries[Drawn + 1] = r.first + ((Drawn + 1) - 1) * r.chunk
    BY <1>5, <2>1
  <2>4. \A i \in 1 .. Drawn + 1 : i \in 1 .. Drawn \/ i = Drawn + 1
    BY <1>3
  <2> HIDE DEF r
  <2> QED BY <1>5, <2>2, <2>3, <2>4
<1>7. r.size <= r.last + 1 - r.first
  BY <1>1 DEF EntriesInv
<1>8. Entries(r) \in Int /\ Entries(r) * r.chunk <= r.last + 1 - r.first
  <2>1. Entries(r) \in Int /\ Entries(r) * r.chunk <= r.size
    BY <1>1, EntriesFit
  <2>2. Entries(r) * r.chunk \in Int
    BY <1>2, <2>1
  <2> QED BY <1>2, <1>7, <2>1, <2>2
<1> HIDE DEF r
<1>9. \A i \in DOMAIN run'.entries : InRange(r, run'.entries[i])
  <2>1. \A i \in DOMAIN run'.entries : i \in 1 .. Entries(r)
    BY <1>3, <1>5, <1>8 DEF r
  <2> QED BY <1>1, <1>6, <1>8, <2>1, ChunkInRange
<1>10. ASSUME NEW i \in DOMAIN run'.entries, NEW j \in DOMAIN run'.entries, i # j
       PROVE  Apart(r, run'.entries[i], run'.entries[j])
  <2>1. i - 1 \in Int /\ j - 1 \in Int /\ i - 1 # j - 1
    BY <1>3, <1>5, <1>10
  <2>2. Apart(r, r.first + (i - 1) * r.chunk, r.first + (j - 1) * r.chunk)
    BY <1>1, <2>1, ChunksAreApart
  <2> QED BY <1>6, <2>2
<1>11. EntriesInv(r)'
  BY <1>1, <1>5, <1>6, <1>7, <1>9, <1>10 DEF EntriesInv, r
<1> QED BY <1>1, <1>5, <1>11 DEF r

LEMMA DrawRandomKeeps ==
  ASSUME IInv, call.op = "perf", NEW i \in 1 .. run.left, DrawRandom(i)
  PROVE  /\ IsRun' /\ run'.request = run.request /\ run'.issued = run.issued
         /\ run'.entries \in Seq(Int) /\ Drawn' = Drawn + 1
         /\ PoolInv(run.request)' /\ EntriesInv(run.request)'
<1> DEFINE r == run.request
           lba == run.pool[i]
<1>1. r \in PerfType /\ IsRun /\ run.entries \in Seq(Int) /\ EntriesInv(r) /\ r.random /\ PoolInv(r)
  BY DEF IInv, RunInv, ChunkInv, DrawRandom
<1>2. r.chunk \in Nat /\ PoolSize(r) \in Int /\ run.left \in Int /\ run.left <= PoolSize(r)
  BY <1>1, PoolFacts DEF PerfType, PoolInv
<1>3. lba \in Int /\ InRange(r, lba)
  BY <1>1 DEF PoolInv, InRange
<1>4. Drawn \in Nat /\ DOMAIN run.entries = 1 .. Drawn
  BY <1>1 DEF Drawn
<1>5. PICK pool, left :
        /\ Draw(lba, pool, left)
        /\ \/ r.overlap /\ pool = run.pool /\ left = run.left
           \/ ~r.overlap /\ pool = WithoutDrawn(i) /\ left = run.left - 1
  BY DEF DrawRandom
<1>6. /\ IsRun' /\ run'.request = r /\ run'.issued = run.issued /\ run'.pool = pool /\ run'.left = left
      /\ run'.entries \in Seq(Int) /\ Drawn' = Drawn + 1 /\ DOMAIN run'.entries = 1 .. Drawn + 1
      /\ run'.entries[Drawn + 1] = lba
      /\ \A j \in 1 .. Drawn : run'.entries[j] = run.entries[j]
  BY <1>1, <1>3, <1>5, DrawFacts
<1>7. \A j \in DOMAIN run'.entries : \/ j \in DOMAIN run.entries /\ run'.entries[j] = run.entries[j]
                                     \/ j = Drawn + 1 /\ run'.entries[j] = lba
  BY <1>4, <1>6
(* What may be drawn next is among what could be drawn before.             *)
<1>8. \A k \in 1 .. left : \E m \in 1 .. run.left :
        pool[k] = run.pool[m] /\ (~r.overlap => m = IF k = i THEN run.left ELSE k)
  <2>1. CASE r.overlap
    BY <1>5, <2>1
  <2>2. CASE ~r.overlap
    <3>1. pool = [run.pool EXCEPT ![i] = run.pool[run.left]] /\ left = run.left - 1
      BY <1>5, <2>2 DEF WithoutDrawn
    <3>2. DOMAIN run.pool = 1 .. PoolSize(r)
      BY <1>1 DEF PoolInv
    <3>3. ASSUME NEW k \in 1 .. left
          PROVE  \E m \in 1 .. run.left :
                   pool[k] = run.pool[m] /\ (~r.overlap => m = IF k = i THEN run.left ELSE k)
      <4>1. k \in DOMAIN run.pool /\ k \in 1 .. run.left /\ run.left \in 1 .. run.left
        BY <1>2, <3>1, <3>2
      <4> QED BY <3>1, <4>1
    <3> QED BY <3>3
  <2> QED BY <2>1, <2>2
<1> HIDE DEF r, lba
<1>9. EntriesInv(r)'
  <2>1. \A j \in DOMAIN run'.entries : InRange(r, run'.entries[j])
    BY <1>1, <1>3, <1>7 DEF EntriesInv
  <2>2. AllApart(r) => \A j \in DOMAIN run.entries : Apart(r, lba, run.entries[j]) /\ Apart(r, run.entries[j], lba)
    BY <1>1 DEF PoolInv, Apart, lba
  <2>3. AllApart(r) => \A j, k \in DOMAIN run'.entries : j # k => Apart(r, run'.entries[j], run'.entries[k])
    BY <1>1, <1>7, <2>2 DEF EntriesInv
  <2> QED BY <1>1, <1>6, <2>1, <2>3 DEF EntriesInv, AllApart, r
<1>10. PoolInv(r)'
  <2>1. left \in Int /\ left <= PoolSize(r) /\ DOMAIN pool = 1 .. PoolSize(r)
    BY <1>1, <1>2, <1>5 DEF PoolInv, WithoutDrawn
  <2>2. \A k \in 1 .. left : InRange(r, pool[k])
    BY <1>1, <1>8 DEF PoolInv
  <2>3. CASE ~AllApart(r)
    BY <1>6, <2>1, <2>2, <2>3 DEF PoolInv, AllApart, r
  <2>4. CASE AllApart(r)
    <3>1. ~r.overlap /\ left = run.left - 1
      BY <1>1, <1>5, <2>4 DEF AllApart
    <3>2. ASSUME NEW k \in 1 .. left, NEW m \in 1 .. left, k # m PROVE Apart(r, pool[k], pool[m])
      <4>1. PICK k1 \in 1 .. run.left : pool[k] = run.pool[k1] /\ k1 = IF k = i THEN run.left ELSE k
        BY <1>8, <3>1
      <4>2. PICK m1 \in 1 .. run.left : pool[m] = run.pool[m1] /\ m1 = IF m = i THEN run.left ELSE m
        BY <1>8, <3>1
      <4>3. k1 # m1
        BY <1>2, <3>1, <3>2, <4>1, <4>2
      <4> QED BY <1>1, <2>4, <4>1, <4>2, <4>3 DEF PoolInv
    <3>3. ASSUME NEW k \in 1 .. left, NEW j \in DOMAIN run'.entries PROVE Apart(r, pool[k], run'.entries[j])
      <4>1. PICK k1 \in 1 .. run.left : pool[k] = run.pool[k1] /\ k1 = IF k = i THEN run.left ELSE k
        BY <1>8, <3>1
      <4>2. k1 # i
        BY <1>2, <3>1, <4>1
      <4>3. Apart(r, run.pool[k1], lba)
        BY <1>1, <2>4, <4>2 DEF PoolInv, lba
      <4>4. \A n \in DOMAIN run.entries : Apart(r, run.pool[k1], run.entries[n])
        BY <1>1, <2>4 DEF PoolInv
      <4> QED BY <1>7, <4>1, <4>3, <4>4
    <3> QED BY <1>6, <2>1, <2>2, <3>2, <3>3 DEF PoolInv, AllApart, r
  <2> QED BY <2>3, <2>4
<1> QED BY <1>6, <1>9, <1>10 DEF r

-----------------------------------------------------------------------------
(* Steps of a performance run. *)

LEMMA InARun ==
  ASSUME IInv, call.step \in {"draw", "sdk"}
  PROVE  /\ call.op = "perf" /\ ~Running
         /\ IsRun /\ run.request \in PerfType /\ run.request.chunk \in Nat \ {0}
         /\ Drawn \in Nat /\ run.issued \in 0 .. Drawn /\ Entries(run.request) \in Int
<1>1. call.op = "perf" /\ ~Running
  BY DEF IInv, CallInv, Running
<1>2. IsRun /\ run.request \in PerfType /\ run.entries \in Seq(Int) /\ run.issued \in Nat /\ run.issued <= Drawn
  BY <1>1 DEF IInv, RunInv
<1>3. run.request.chunk \in Nat \ {0} /\ run.request.size \in Nat
  BY <1>2 DEF PerfType
<1> QED BY <1>1, <1>2, <1>3, Quotients DEF Drawn, Entries

LEMMA DrawEntryKeeps == ASSUME IInv, DrawEntry PROVE IInv'
<1>1. /\ call.step = "draw" /\ Drawn < Entries(run.request)
      /\ DrawNext \/ \E i \in 1 .. run.left : DrawRandom(i)
      /\ UNCHANGED <<device, register, copy, key, cmds, executed, sent, answer, call, told, taken, lost>>
  BY DEF DrawEntry
<1>2. call.op = "perf" /\ ~Running /\ ~Running' /\ Drawn \in Nat
  BY <1>1, InARun DEF Running
<1>3. /\ IsRun' /\ run'.request = run.request /\ run'.issued = run.issued
      /\ run'.entries \in Seq(Int) /\ Drawn' = Drawn + 1
      /\ run.request.random => PoolInv(run.request)'
      /\ EntriesInv(run.request)'
  <2>1. CASE DrawNext
    BY <1>1, <1>2, <2>1, DrawNextKeeps
  <2>2. CASE \E i \in 1 .. run.left : DrawRandom(i)
    BY <1>2, <2>2, DrawRandomKeeps
  <2> QED BY <1>1, <2>1, <2>2
<1>4. ChunkInv'
  <2>1. run'.request = run.request
    BY <1>3
  <2>2. EntriesInv(run.request)' /\ (run.request.random => PoolInv(run.request)')
    BY <1>3
  <2> QED BY <2>1, <2>2 DEF ChunkInv
<1>5. RunInv'
  BY <1>1, <1>2, <1>3 DEF IInv, RunInv, Sure, Proven
<1>6. TypeOK' /\ CopiesAreDevice' /\ CallInv'
  BY <1>1, <1>2 DEF IInv, TypeOK, CopiesAreDevice, CallInv
<1> QED BY <1>2, <1>4, <1>5, <1>6 DEF IInv, PackageInv, AnswerInv

LEMMA AllDrawnKeeps == ASSUME IInv, AllDrawn PROVE IInv'
<1>1. /\ call.step = "draw" /\ Drawn = Entries(run.request) /\ call' = [call EXCEPT !.step = "sdk"]
      /\ UNCHANGED <<device, register, copy, key, cmds, executed, sent, answer, run, told, taken, lost>>
  BY DEF AllDrawn
<1>2. call.op = "perf"
  BY <1>1, InARun
<1>3. /\ call'.op = "perf" /\ call'.step = "sdk" /\ call'.sure = call.sure
      /\ call'.proven = call.proven /\ call'.object = call.object /\ call' \in CallType
  BY <1>1, <1>2 DEF IInv, TypeOK, CallType
<1>4. ~Running'
  BY <1>3 DEF Running
<1>5. TypeOK' /\ CopiesAreDevice' /\ CallInv'
  BY <1>1, <1>2, <1>3, <1>4 DEF IInv, TypeOK, CopiesAreDevice, CallInv
<1>6. RunInv'
  BY <1>1, <1>2, <1>3 DEF IInv, RunInv, IsRun, Drawn, Sure, Proven
<1>7. ChunkInv'
  BY <1>1, <1>2, <1>3 DEF IInv, ChunkInv, PoolInv, EntriesInv
<1> QED BY <1>4, <1>5, <1>6, <1>7 DEF IInv, PackageInv, AnswerInv

LEMMA StopKeeps ==
  ASSUME IInv, Stop, UNCHANGED <<device, copy, key, told, taken, lost>>
  PROVE  IInv'
<1>1. Return /\ run' = NoRun /\ key'["inner"] = DefaultKey
  BY DEF Stop, Raise, IInv, CallInv
<1>2. TypeOK' /\ CopiesAreDevice'
  BY <1>1, ReturnTyped DEF IInv, TypeOK, CopiesAreDevice
<1> QED BY <1>1, <1>2, CallEnds

(* An entry and what the device makes of it.                               *)
LEMMA IssueFacts ==
  ASSUME IInv, Issue, run.request.write
  PROVE  \E result :
           /\ register'.result = result /\ register' \in AnswerType
           /\ device' \in [mode : {"normal", "advanced"}, key : Keys \cup {NONE}, counter : Counters]
           /\ device'.key # device.key => device.key = NONE
           /\ device'.counter # device.counter => result = "OK"
           /\ device'.key = device.key
           /\ result = "OK" => device'.counter = copy["perf"] + run.issued + 1 /\ device'.key = DefaultKey
           /\ result = "COUNTER_FAILURE" => copy["perf"] + run.issued # device.counter
           /\ result = "AUTHENTICATION_FAILURE" => DefaultKey # device.key
           /\ run' = IF result = "OK" THEN [run EXCEPT !.issued = run.issued + 1] ELSE run
<1> DEFINE c == [Command("write") EXCEPT !.key = DefaultKey, !.counter = EntryCounter(run.issued + 1),
                                         !.fits = run.entries[run.issued + 1] + run.request.chunk <= Size]
<1>1. PICK result \in Results(c) :
        /\ device' = After(c, result) /\ register' = Register(c, result)
        /\ run' = IF result = "OK" THEN [run EXCEPT !.issued = run.issued + 1] ELSE run
  BY DEF Issue
<1>2. copy["perf"] \in Nat /\ run.issued \in Nat
  BY InARun DEF Issue, IInv, TypeOK
<1>3. c.op = "write" /\ c.key = DefaultKey /\ c.counter = copy["perf"] + run.issued
  BY <1>2 DEF Command, EntryCounter
<1>4. device \in [mode : {"normal", "advanced"}, key : Keys \cup {NONE}, counter : Counters]
  BY DEF IInv, TypeOK
<1> HIDE DEF c
<1>5. c.op \in Ops
  BY <1>3 DEF Ops, Operations
<1> QED BY <1>1, <1>2, <1>3, <1>4, <1>5, RequestFacts

LEMMA IssueKeeps == ASSUME IInv, Issue PROVE IInv'
<1>1. /\ call.step = "sdk" /\ run.issued < Drawn
      /\ told' = StillTold /\ UNCHANGED <<copy, key, cmds, executed, sent, answer, call, taken, lost>>
  BY DEF Issue
<1>2. /\ call.op = "perf" /\ ~Running /\ ~Running' /\ IsRun
      /\ Drawn \in Nat /\ run.issued \in Nat /\ copy["perf"] \in Nat
  BY <1>1, InARun DEF Running, IInv, TypeOK
<1>3. /\ device' \in [mode : {"normal", "advanced"}, key : Keys \cup {NONE}, counter : Counters]
      /\ register' \in AnswerType
      /\ device'.key # device.key => device.key = NONE
      /\ run' = run \/ run' = [run EXCEPT !.issued = run.issued + 1]
      /\ run.request.write =>
           \/ run' = run /\ device'.counter = device.counter /\ device'.key = device.key
           \/ /\ run' = [run EXCEPT !.issued = run.issued + 1]
              /\ device'.counter = copy["perf"] + run.issued + 1 /\ device'.key = DefaultKey
  <2>1. CASE run.request.write
    BY <2>1, IssueFacts
  <2>2. CASE ~run.request.write
    BY <2>2 DEF Issue, IInv, TypeOK
  <2> QED BY <2>1, <2>2
<1>4. CopiesAreDevice' /\ told' \in [Copies -> Counters \cup {NONE}]
  BY <1>1, <1>3, CopiesSurvive
<1>5. TypeOK'
  BY <1>1, <1>3, <1>4 DEF IInv, TypeOK
<1>6. CallInv'
  BY <1>1, <1>2 DEF IInv, CallInv
<1>7. /\ IsRun' /\ run'.request = run.request /\ run'.entries = run.entries
      /\ run'.pool = run.pool /\ run'.left = run.left /\ Drawn' = Drawn
      /\ \/ run' = run
         \/ run'.issued = run.issued + 1 /\ run' = [run EXCEPT !.issued = run.issued + 1]
  BY <1>2, <1>3 DEF IsRun, Drawn
<1>8. RunInv'
  <2>1. run'.issued \in Nat /\ run'.issued <= Drawn'
    BY <1>1, <1>2, <1>7
  <2>2. run.request.write =>
          IF run'.issued = 0 THEN call.sure => Sure("inner")'
          ELSE device'.counter = copy["perf"] + run'.issued /\ device'.key = DefaultKey
    <3>1. CASE run' = run /\ device'.counter = device.counter /\ device'.key = device.key
      <4>1. told' = told /\ Sure("inner")' = Sure("inner")
        BY <1>1, <3>1 DEF StillTold, Sure
      <4> QED BY <1>2, <3>1, <4>1 DEF IInv, RunInv
    <3>2. CASE /\ run' = [run EXCEPT !.issued = run.issued + 1]
               /\ device'.counter = copy["perf"] + run.issued + 1 /\ device'.key = DefaultKey
      <4>1. run'.issued = run.issued + 1
        BY <1>2, <3>2 DEF IsRun
      <4> QED BY <1>2, <3>2, <4>1
    <3> QED BY <1>3, <3>1, <3>2
  <2>3. Proven("inner")' = Proven("inner")
    BY <1>1 DEF Proven
  <2> QED BY <1>1, <1>2, <1>7, <2>1, <2>2, <2>3 DEF IInv, RunInv
<1>9. ChunkInv'
  BY <1>1, <1>2, <1>7 DEF IInv, ChunkInv, PoolInv, EntriesInv
<1> QED BY <1>2, <1>4, <1>5, <1>6, <1>8, <1>9 DEF IInv, PackageInv, AnswerInv

LEMMA ExecutedKeeps == ASSUME IInv, Executed PROVE IInv'
<1>1. /\ call.step = "sdk" /\ run.issued = Drawn /\ Return /\ run' = NoRun
      /\ UNCHANGED <<device, key>>
  BY DEF Executed
<1>2. call.op = "perf" /\ Drawn \in Nat /\ key'["inner"] = DefaultKey
  BY <1>1, InARun DEF IInv, CallInv
<1>3. CASE run.request.write /\ Drawn > 0
  <2>1. device.counter = copy["perf"] + Drawn /\ Drawn = Entries(run.request) /\ device.key = DefaultKey
    BY <1>1, <1>2, <1>3 DEF IInv, RunInv
  <2>2. /\ copy' = [copy EXCEPT !["perf"] = device.counter]
        /\ told' = [told EXCEPT !["perf"] = device.counter]
        /\ taken' = [taken EXCEPT !["inner"] = device.key] /\ lost' = lost \ {"counter"}
    <3>1. /\ copy' = [copy EXCEPT !["perf"] = copy["perf"] + Drawn]
          /\ told' = [told EXCEPT !["perf"] = EntryCounter(Drawn + 1)]
          /\ taken' = [taken EXCEPT !["inner"] = DefaultKey] /\ lost' = lost \ {"counter"}
      BY <1>3, <2>1 DEF Executed
    <3>2. EntryCounter(Drawn + 1) = copy["perf"] + Drawn
      BY <1>2 DEF EntryCounter, IInv, TypeOK
    <3> QED BY <2>1, <3>1, <3>2
  <2>3. TypeOK'
    BY <1>1, <1>2, <2>2, ReturnTyped DEF IInv, TypeOK
  <2>4. CopiesAreDevice'
    <3>1. /\ copy'["perf"] = device.counter /\ told'["perf"] = device.counter /\ "counter" \notin lost'
          /\ copy'["rpmb"] = copy["rpmb"] /\ told'["rpmb"] = told["rpmb"]
      BY <2>2 DEF IInv, TypeOK
    <3>2. /\ taken'["inner"] = device.key /\ taken'["rpmb"] = taken["rpmb"]
          /\ key["inner"] = device.key /\ ("key" \in lost' <=> "key" \in lost)
      BY <2>1, <2>2 DEF IInv, TypeOK, CallInv
    <3> QED BY <1>1, <3>1, <3>2 DEF IInv, CopiesAreDevice
  <2> QED BY <1>1, <1>2, <2>3, <2>4, CallEnds
<1>4. CASE ~(run.request.write /\ Drawn > 0)
  <2>1. UNCHANGED <<copy, told, taken, lost>>
    BY <1>4 DEF Executed
  <2>2. TypeOK' /\ CopiesAreDevice'
    BY <1>1, <2>1, ReturnTyped DEF IInv, TypeOK, CopiesAreDevice
  <2> QED BY <1>1, <1>2, <2>2, CallEnds
<1> QED BY <1>3, <1>4

-----------------------------------------------------------------------------
(* Theorems *)

LEMMA CallsKeep == ASSUME IInv, Calls PROVE IInv'
<1>1. CASE \E o \in Objects : NewObject(o)
  BY <1>1, NewObjectKeeps
<1>2. CASE ReadCounter("rpmb", NONE) \/ RpmbInit
  BY <1>2, ReadCounterKeeps DEF RpmbInit
<1>3. CASE \E k \in Keys : ProgramKey("rpmb", k)
  BY <1>3, ProgramKeyKeeps
<1>4. CASE \E fits \in BOOLEAN : WriteData("rpmb", fits)
  BY <1>4, WriteDataKeeps
<1>5. CASE ReadData("rpmb")
  BY <1>5, ReadDataKeeps
<1>6. CASE RpmbReset
  BY <1>6, RpmbResetKeeps
<1>7. CASE \E r \in PerfRequests : Executer(r)
  BY <1>7, ExecuterKeeps
<1>8. CASE VucClearRpmbKey \/ \E n \in Counters : VucSetWriteCounter(n)
  BY <1>8, VendorKeeps
<1>9. CASE PatternClears
  BY <1>9, PatternClearsKeeps
<1> QED BY <1>1, <1>2, <1>3, <1>4, <1>5, <1>6, <1>7, <1>8, <1>9 DEF Calls

LEMMA StepsKeep == ASSUME IInv, Steps PROVE IInv'
<1>1. CASE \E i \in DOMAIN cmds : Execute(i)
  BY <1>1, ExecuteKeeps
<1>2. CASE RequestSent
  BY <1>2, RequestSentKeeps
<1>3. CASE SendFails \/ BadStatus \/ KeyNotProgrammed \/ DataRead
  BY <1>3, Raised DEF SendFails, BadStatus, KeyNotProgrammed, DataRead, Completed, Raise
<1>4. CASE CounterRead \/ CounterNotRead
  BY <1>4, CounterReadKeeps, CounterNotReadKeeps
<1>5. CASE KeyProgrammed \/ DataWritten
  BY <1>5, KeyProgrammedKeeps, DataWrittenKeeps
<1>6. CASE DrawFails \/ SdkFails
  BY <1>6, StopKeeps DEF DrawFails, SdkFails
<1>7. CASE DrawEntry \/ AllDrawn
  BY <1>7, DrawEntryKeeps, AllDrawnKeeps
<1>8. CASE Issue \/ Executed
  BY <1>8, IssueKeeps, ExecutedKeeps
<1> QED BY <1>1, <1>2, <1>3, <1>4, <1>5, <1>6, <1>7, <1>8 DEF Steps

LEMMA Stutters == ASSUME IInv, UNCHANGED vars PROVE IInv'
<1>1. TypeOK' /\ CopiesAreDevice' /\ CallInv'
  BY DEF vars, IInv, TypeOK, CopiesAreDevice, CallInv, Running
<1>2. PackageInv' /\ AnswerInv'
  BY DEF vars, IInv, PackageInv, AnswerInv, Running, IsRequest, Alone, WithResult, Requested, OfCall,
     Sure, Proven
<1>3. RunInv' /\ ChunkInv'
  BY DEF vars, IInv, RunInv, ChunkInv, Sure, Proven, IsRun, Drawn, PoolInv, EntriesInv
<1> QED BY <1>1, <1>2, <1>3 DEF IInv

LEMMA Inductive == Spec => []IInv
<1>1. IInv /\ [Next]_vars => IInv'
  BY CallsKeep, StepsKeep, Stutters DEF Next
<1> QED BY <1>1, Initially, PTL DEF Spec

(* The counter an object was told last and the key the device took of it   *)
(* are the device's and the object's, after any sequence of calls and      *)
(* failures, but for the two copies the code itself overwrites: the counter*)
(* in rpmb_reset (rpmb_perf.py:113), the key in rpmb_key_programming       *)
(* (rpmb.py:97).                                                           *)
THEOREM CopiesFollow == Spec => []CopiesAreDevice
<1>1. IInv => CopiesAreDevice
  BY DEF IInv
<1> QED BY <1>1, Inductive, PTL

(* Performance runs draw their chunks within the range, and apart where    *)
(* they must not overlap, for runs of any size.                            *)
THEOREM ChunksAreAsAsked == Spec => []ChunksAsAsked
<1>1. IInv => ChunksAsAsked
  <2> SUFFICES ASSUME IInv, call.op = "perf" PROVE ChunksAsAsked
    BY DEF ChunksAsAsked
  <2> DEFINE r == run.request
  <2>1. EntriesInv(r) /\ r \in PerfType /\ run.entries \in Seq(Int)
    BY DEF IInv, ChunkInv, RunInv
  <2>2. DOMAIN run.entries = 1 .. Len(run.entries) /\ Len(run.entries) \in Nat
    BY <2>1
  <2> HIDE DEF r
  <2>3. ASSUME NEW i \in DOMAIN run.entries
        PROVE  /\ r.first <= run.entries[i] /\ run.entries[i] + r.chunk - 1 <= r.last
               /\ ~r.random \/ (r.aligned /\ ~r.overlap) =>
                    \A j \in 1 .. i - 1 : \/ run.entries[i] + r.chunk <= run.entries[j]
                                         \/ run.entries[j] + r.chunk <= run.entries[i]
    <3>1. r.first <= run.entries[i] /\ run.entries[i] + r.chunk - 1 <= r.last
      BY <2>1 DEF EntriesInv, InRange
    <3>2. \A j \in 1 .. i - 1 : j \in DOMAIN run.entries /\ i # j
      BY <2>2
    <3>3. ASSUME ~r.random \/ (r.aligned /\ ~r.overlap), NEW j \in 1 .. i - 1
          PROVE  Apart(r, run.entries[i], run.entries[j])
      BY <2>1, <3>2, <3>3 DEF EntriesInv, AllApart
    <3> QED BY <3>1, <3>3 DEF Apart
  <2> QED BY <2>3 DEF ChunksAsAsked, r
<1> QED BY <1>1, Inductive, PTL

(* A write is refused for its counter or its MAC only when the object was  *)
(* not told the counter, or had no key taken, since others may have changed*)
(* them, or when the code has overwritten what it was told (rpmb_perf.py   *)
(* line 113, rpmb.py line 97).  No run is refused for what it wrote itself.*)
THEOREM RefusalsAreInDoubt == Spec => RefusedOnlyInDoubt
<1> DEFINE Doubtful ==
      /\ register'.result = "COUNTER_FAILURE" => ~call.sure
      /\ register'.result = "AUTHENTICATION_FAILURE" => ~call.proven
<1>1. ASSUME IInv, NEW i, Execute(i), register' # register PROVE Doubtful
  <2> DEFINE c == cmds[1]
  <2>1. Ready(i) /\ cmds[i].op \notin {"result", "in"} /\ Running
    BY <1>1 DEF Execute, Ready
  <2>2. i = 1 /\ ~Requested /\ IsRequest(c) /\ c.op \in Ops
    BY <1>1, <2>1, RequestIsFirst
  <2>3. PICK result \in Results(c) : register' = Register(c, result)
    BY <1>1, <2>1, <2>2 DEF Execute
  <2>4. device \in [mode : {"normal", "advanced"}, key : Keys \cup {NONE}, counter : Counters]
    BY <1>1 DEF IInv, TypeOK
  <2>5. c.op = "key" => c.key \in Keys
    BY <1>1, <2>1, <2>2 DEF IsRequest, IInv, TypeOK, CallInv
  <2>6. /\ register'.result = result
        /\ result = "COUNTER_FAILURE" => c.op = "write" /\ c.counter # device.counter
        /\ result = "AUTHENTICATION_FAILURE" => c.op = "write" /\ c.key # device.key
    BY <2>2, <2>3, <2>4, <2>5, RequestFacts
  <2>7. c.op = "write" =>
          /\ c.counter = copy["rpmb"] /\ c.key = key["rpmb"]
          /\ call.sure => Sure("rpmb")
          /\ call.proven => Proven("rpmb")
    BY <1>1, <2>1, <2>2 DEF IsRequest, IInv, CallInv, AnswerInv
  <2> QED BY <1>1, <2>6, <2>7 DEF IInv, CopiesAreDevice, Sure, Proven, Counter
<1>2. ASSUME IInv, Issue, register' # register PROVE Doubtful
  <2>1. run.request.write /\ call.op = "perf"
    BY <1>2, InARun DEF Issue
  <2>2. /\ register'.result = "COUNTER_FAILURE" => copy["perf"] + run.issued # device.counter
        /\ register'.result = "AUTHENTICATION_FAILURE" => DefaultKey # device.key
    BY <1>2, <2>1, IssueFacts
  <2>3. copy["perf"] \in Nat
    BY <1>2 DEF IInv, TypeOK
  <2>4. call.sure => copy["perf"] + run.issued = device.counter
    BY <1>2, <2>1, <2>3 DEF IInv, RunInv, CopiesAreDevice, Sure, Counter
  <2>5. call.proven => DefaultKey = device.key
    BY <1>2, <2>1 DEF IInv, RunInv, CallInv, CopiesAreDevice, Proven
  <2> QED BY <2>2, <2>4, <2>5
<1>3. ASSUME register' = NoAnswer PROVE Doubtful
  BY <1>3 DEF NoAnswer, Codes
<1>4. ASSUME Calls PROVE register' = register \/ register' = NoAnswer
  BY <1>4 DEF Calls, NewObject, ReadCounter, ProgramKey, WriteData, ReadData, RpmbInit, RpmbReset,
     Executer, VucClearRpmbKey, VucSetWriteCounter, Vendor, PatternClears, Enqueue, Raise, Return, Send
<1>5. ASSUME Steps
      PROVE  \/ \E i : Execute(i)
             \/ Issue
             \/ register' = register \/ register' = NoAnswer
  BY <1>5 DEF Steps, RequestSent, SendFails, BadStatus, CounterRead, CounterNotRead, KeyProgrammed,
     KeyNotProgrammed, DataWritten, DataRead, DrawFails, DrawEntry, AllDrawn, SdkFails, Executed,
     Stop, Raise, Return, Send
<1>6. IInv /\ [Next]_vars => [register' # register => Doubtful]_vars
  <2> SUFFICES ASSUME IInv, Next, register' # register PROVE Doubtful
    BY DEF vars
  <2> HIDE DEF Doubtful
  <2> QED BY <1>1, <1>2, <1>3, <1>4, <1>5 DEF Next
<1> QED BY <1>6, Inductive, PTL DEF Spec, RefusedOnlyInDoubt
=============================================================================
