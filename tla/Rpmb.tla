-------------------------------- MODULE Rpmb --------------------------------
(***************************************************************************)
(* The replay protected memory block: ufs_api/rpmb/rpmb.py (RPMB), its     *)
(* advanced form ufs_api/adv_rpmb/adv_rpmb.py (AdvRPMB), and the           *)
(* performance runs of perf_api/rpmb_perf.py (RpmbPerformanceClass), which *)
(* keep a write counter of their own beside the one of the RPMB inside.    *)
(*                                                                         *)
(* A write is taken by the device only with its key and its write counter. *)
(* Every object believes it knows both: the key it programmed, the counter *)
(* of the last answer it took.  All of them talk to one region, which is   *)
(* configured for one of the two forms, and so are the objects; data and   *)
(* MACs are left out, a MAC is right when key and counter are.             *)
(***************************************************************************)
EXTENDS Integers, Sequences, FiniteSets

CONSTANTS
  Keys, DefaultKey,  \* the authentication keys of patterns, and the objects' own
  MaxCounter,        \* FFFFFFFFh, where the device stops counting
  Size,              \* blocks of the region
  PerfRequests,      \* performance runs of patterns
  MaxEntries,        \* RPMB_MAX_TASKENTRY_WO_LATENCY
  NONE

Objects  == {"rpmb", "inner"}   \* a pattern's, and the RPMB of the performance class,
Copies   == {"rpmb", "perf"}    \* of which only its owner's counter is used
Counters == 0 .. MaxCounter

Operations == {"counter", "key", "write", "read", "perf"}

(* RPMBOperationResult; the expired counter is a flag beside the result.   *)
Codes ==
  {"OK", "OK_EXPIRED", "GENERAL_FAILURE", "AUTHENTICATION_FAILURE", "COUNTER_FAILURE",
   "ADDRESS_FAILURE", "WRITE_FAILURE", "READ_FAILURE", "KEY_NOT_PROGRAMMED", "COUNTER_EXPIRED"}

(* A run: lengths in blocks of 256 bytes.                                  *)
PerfType ==
  [random : BOOLEAN, write : BOOLEAN, chunk : Nat \ {0}, size : Nat, first : Nat, last : Nat,
   overlap : BOOLEAN, aligned : BOOLEAN]

ASSUME RpmbAssumption ==
  /\ DefaultKey \in Keys /\ NONE \notin Keys \cup Operations \cup Codes \cup Nat
  /\ MaxCounter \in Nat /\ Size \in Nat /\ MaxEntries \in Nat
  /\ PerfRequests \subseteq PerfType

VARIABLES
  device,    \* mode, authentication key and write counter of the region
  register,  \* what the device answers next: the result of the call's last request
  copy,      \* write_counter of every object
  key,       \* key of every object
  cmds,      \* the package of the call
  executed,  \* which of its commands the device has executed
  sent,      \* _is_cmd_sent: a failed package was left behind
  answer,    \* what read_response returns
  call,      \* the call that runs
  run,       \* locals of executer: the blocks to draw from and those drawn
  told,      \* history: the counter the device's answers told every object,
             \* NONE when it was told none or the device may have counted since
  taken,     \* history: the key the device took of every object, NONE when it
             \* took none or the key may have been cleared since
  lost       \* history: "counter", "key": told or taken, but overwritten by the code

history == <<told, taken, lost>>
vars == <<device, register, copy, key, cmds, executed, sent, answer, call, run, told, taken, lost>>

NoAnswer == [type |-> NONE, result |-> NONE, counter |-> 0]
NoCall   == [op |-> NONE, object |-> NONE, step |-> "idle", for |-> NONE, sure |-> FALSE, proven |-> FALSE]
NoRun    == [request |-> NONE, pool |-> <<>>, left |-> 0, entries |-> <<>>, issued |-> 0]

Idle   == call = NoCall
Return == call' = NoCall /\ answer' = NoAnswer /\ register' = NoAnswer
Raise  == Return                 \* what it raises is not told apart

-----------------------------------------------------------------------------
(* The device.  A request overwrites the result register; the result read  *)
(* request only makes it ready.                                            *)

Counter(object) == IF object = "rpmb" THEN "rpmb" ELSE "perf"

Command(op) == [op |-> op, key |-> NONE, counter |-> 0, fits |-> TRUE, waits |-> FALSE, answers |-> FALSE]

Advanced == device.mode = "advanced"

WriteResult(k, counter, fits) ==
  CASE device.key = NONE            -> "KEY_NOT_PROGRAMMED"
    [] device.counter = MaxCounter  -> "COUNTER_EXPIRED"
    [] ~fits                        -> "ADDRESS_FAILURE"
    [] k # device.key               -> "AUTHENTICATION_FAILURE"
    [] counter # device.counter     -> "COUNTER_FAILURE"
    [] OTHER                        -> "OK"

Results(c) ==
  CASE c.op = "key"   -> IF device.key = NONE THEN {"OK", "GENERAL_FAILURE"} ELSE {"WRITE_FAILURE"}
    [] c.op = "write" -> LET r == WriteResult(c.key, c.counter, c.fits)
                         IN  IF r = "OK" THEN {"OK", "WRITE_FAILURE"} ELSE {r}
    [] OTHER          -> IF device.key = NONE THEN {"KEY_NOT_PROGRAMMED"}
                         ELSE IF device.counter = MaxCounter THEN {"OK_EXPIRED"}
                         ELSE {"OK", "READ_FAILURE"}

After(c, result) ==
  CASE c.op = "key" /\ result = "OK"   -> [device EXCEPT !.key = c.key]
    [] c.op = "write" /\ result = "OK" -> [device EXCEPT !.counter = @ + 1]
    [] OTHER                           -> device

(* The answer to a key request has no counter.                             *)
Register(c, result) ==
  [type |-> c.op, result |-> result,
   counter |-> IF c.op = "key" THEN 0 ELSE After(c, result).counter]

(* Whoever wrote, what was told before is told no more.                    *)
Untold == [o \in Copies |-> NONE]

StillTold == IF device'.counter # device.counter THEN Untold ELSE told

Running == call.step \in {"request", "answer"}

Ready(i) ==
  /\ Running /\ i \in DOMAIN cmds \ executed
  /\ \A j \in 1 .. i - 1 : cmds[i].waits \/ cmds[j].waits => j \in executed

Execute(i) ==
  /\ Ready(i)
  /\ IF cmds[i].op \in {"result", "in"}
     THEN UNCHANGED <<device, register>>
     ELSE \E result \in Results(cmds[i]) :
            /\ device' = After(cmds[i], result)
            /\ register' = Register(cmds[i], result)
  /\ answer' = IF cmds[i].answers THEN register' ELSE answer
  /\ executed' = executed \cup {i}
  /\ told' = StillTold
  /\ UNCHANGED <<copy, key, cmds, sent, call, run, taken, lost>>

-----------------------------------------------------------------------------
(* Packages. *)

ClearPackage == cmds' = <<>> /\ executed' = {} /\ sent' = FALSE
KeepPackage  == UNCHANGED <<cmds, executed, sent>>

Waiting(c) == [c EXCEPT !.waits = TRUE]

(* The advanced form answers in its response.  Keys and writes ask for the *)
(* result in the same package; counter and data are read in a second one.  *)
Package(request) ==
  IF Advanced THEN <<[request EXCEPT !.answers = TRUE]>>
  ELSE IF request.op \in {"key", "write"}
  THEN <<Waiting(request), Waiting(Command("result")), Waiting([Command("in") EXCEPT !.answers = TRUE])>>
  ELSE <<request>>

(* The object was told or gave the device what it needs, and still has it. *)
Sure(object) == told[Counter(object)] # NONE /\ ~(Counter(object) = "perf" /\ "counter" \in lost)

Proven(object) == taken[object] # NONE /\ ~(object = "rpmb" /\ "key" \in lost)

(* A call of a method; whom it is for: the pattern, or rpmb_init, before   *)
(* and after it programmed the key.                                        *)
Send(object, request, for) ==
  /\ cmds' = Package(request) /\ executed' = {} /\ sent' = TRUE
  /\ call' = [op |-> request.op, object |-> object, for |-> for,
              step |-> IF ~Advanced /\ request.op \in {"counter", "read"} THEN "request" ELSE "answer",
              sure |-> Sure(object), proven |-> Proven(object)]
  /\ answer' = NoAnswer /\ register' = NoAnswer

(* The first enqueue of a method raises while a failed package is there.   *)
Enqueue(object, request, for) ==
  IF sent THEN Raise /\ KeepPackage ELSE Send(object, request, for)

Completed(op) ==
  Running /\ call.op = op /\ call.step = "answer" /\ executed = DOMAIN cmds

RequestSent ==
  /\ call.step = "request" /\ executed = DOMAIN cmds
  /\ cmds' = <<[Command("in") EXCEPT !.answers = TRUE]>> /\ executed' = {}
  /\ call' = [call EXCEPT !.step = "answer"]
  /\ UNCHANGED <<device, register, copy, key, sent, answer, run, history>>

(* A package that fails stays sent; what it holds is not looked at again.  *)
SendFails ==
  /\ Running
  /\ cmds' = <<>> /\ executed' = {} /\ Raise
  /\ UNCHANGED <<device, copy, key, sent, run, history>>

(* The status of SECURITY PROTOCOL IN is not GOOD.                         *)
BadStatus ==
  /\ Running /\ call.step = "answer" /\ executed = DOMAIN cmds /\ ~Advanced
  /\ ClearPackage /\ Raise
  /\ UNCHANGED <<device, copy, key, run, history>>

PatternClears ==
  /\ Idle /\ ClearPackage
  /\ UNCHANGED <<device, register, copy, key, answer, call, run, history>>

-----------------------------------------------------------------------------
(* The methods. *)

NewObject(object) ==
  /\ Idle
  /\ copy' = [copy EXCEPT ![Counter(object)] = 0]
  /\ key' = [key EXCEPT ![object] = DefaultKey]
  /\ told' = [told EXCEPT ![Counter(object)] = NONE]
  /\ taken' = [taken EXCEPT ![object] = NONE]
  /\ lost' = lost \ {IF object = "rpmb" THEN "key" ELSE "counter"}
  /\ UNCHANGED <<device, register, cmds, executed, sent, answer, call, run>>

ReadCounter(object, for) ==
  /\ Idle /\ Enqueue(object, Command("counter"), for)
  /\ UNCHANGED <<device, copy, key, run, history>>

Answered(type) == answer.type = type /\ answer.result = "OK"

CounterRead ==
  /\ Completed("counter") /\ Answered("counter")
  /\ copy' = [copy EXCEPT ![Counter(call.object)] = answer.counter]
  /\ told' = [told EXCEPT ![Counter(call.object)] = answer.counter]
  /\ lost' = IF Counter(call.object) = "perf" THEN lost \ {"counter"} ELSE lost
  /\ ClearPackage /\ Return
  /\ UNCHANGED <<device, key, run, taken>>

ProgramRequest(k) == [Command("key") EXCEPT !.key = k]

(* A counter that cannot be read raises; rpmb_init programs the key, once. *)
CounterNotRead ==
  /\ Completed("counter") /\ ~Answered("counter")
  /\ IF call.for = "init" /\ answer.result = "KEY_NOT_PROGRAMMED"
     THEN Send("inner", ProgramRequest(key["inner"]), "init")
     ELSE ClearPackage /\ Raise
  /\ UNCHANGED <<device, copy, key, run, history>>

(* The object has the new key before the device is asked to take it; the   *)
(* one it took before is not kept.                                         *)
ProgramKey(object, k) ==
  /\ Idle
  /\ key' = [key EXCEPT ![object] = k]
  /\ lost' = IF taken[object] \in {k, NONE} THEN lost \ {"key"} ELSE lost \cup {"key"}
  /\ Enqueue(object, ProgramRequest(k), NONE)
  /\ UNCHANGED <<device, copy, run, told, taken>>

KeyTaken(object) ==
  /\ taken' = [taken EXCEPT ![object] = key[object]]
  /\ lost' = IF object = "rpmb" THEN lost \ {"key"} ELSE lost

KeyProgrammed ==
  /\ Completed("key") /\ Answered("key")
  /\ KeyTaken(call.object)
  /\ IF call.for = "init" THEN Send("inner", Command("counter"), "again")
     ELSE ClearPackage /\ Return
  /\ UNCHANGED <<device, copy, key, run, told>>

(* Also of a key the device says it did not take, the object keeps the new *)
(* one.                                                                    *)
KeyNotProgrammed ==
  /\ Completed("key") /\ ~Answered("key")
  /\ ClearPackage /\ Raise
  /\ UNCHANGED <<device, copy, key, run, history>>

WriteData(object, fits) ==
  /\ Idle
  /\ Enqueue(object, [Command("write") EXCEPT !.key = key[object], !.counter = copy[object],
                                              !.fits = fits], NONE)
  /\ UNCHANGED <<device, copy, key, run, history>>

Raising ==
  {"KEY_NOT_PROGRAMMED"} \cup (IF Advanced THEN {"AUTHENTICATION_FAILURE"} ELSE {})

(* Mutant: the object counts its own writes.                               *)
CounterCounted(object) == copy[object] + 1

CounterAnswered(object) == answer.counter

(* Of most failures the method returns as of a success; the counter is the *)
(* device's in either answer.                                              *)
DataWritten ==
  /\ Completed("write")
  /\ IF answer.result \in Raising
     THEN Raise /\ UNCHANGED <<copy, told>>
     ELSE /\ copy' = [copy EXCEPT ![call.object] = CounterAnswered(call.object)]
          /\ told' = [told EXCEPT ![call.object] = answer.counter]
          /\ Return
  /\ IF answer.result = "OK" THEN KeyTaken(call.object) ELSE UNCHANGED <<taken, lost>>
  /\ ClearPackage
  /\ UNCHANGED <<device, key, run>>

ReadData(object) ==
  /\ Idle /\ Enqueue(object, Command("read"), NONE)
  /\ UNCHANGED <<device, copy, key, run, history>>

(* Whatever is wrong with the data, its MAC or its nonce is raised.        *)
DataRead ==
  /\ Completed("read")
  /\ ClearPackage /\ Return
  /\ UNCHANGED <<device, copy, key, run, history>>

(* vuc_clear_rpmb_key and vuc_set_writecounter; a command that fails may   *)
(* have been executed.                                                     *)
Vendor(next) ==
  /\ Idle /\ ~sent
  /\ \/ device' = next /\ sent' \in BOOLEAN
     \/ device' = device /\ sent' = TRUE
  /\ told' = Untold
  /\ UNCHANGED <<register, copy, key, cmds, executed, answer, call, run, lost>>

VucClearRpmbKey ==
  /\ Vendor([device EXCEPT !.key = NONE, !.counter = 0])
  /\ taken' = [o \in Objects |-> NONE]

VucSetWriteCounter(n) ==
  /\ Vendor([device EXCEPT !.counter = n])
  /\ UNCHANGED taken

-----------------------------------------------------------------------------
(* RpmbPerformanceClass *)

RpmbInit == ~Advanced /\ ReadCounter("inner", "init")

(* rpmb_reset clears nothing of the device, the method that would is empty,*)
(* but sets the counter to 0, also one it was told.                        *)
RpmbReset ==
  /\ Idle /\ ~Advanced
  /\ copy' = [copy EXCEPT !["perf"] = 0]
  /\ lost' = IF told["perf"] \in {0, NONE} THEN lost ELSE lost \cup {"counter"}
  /\ Enqueue("inner", ProgramRequest(key["inner"]), NONE)
  /\ UNCHANGED <<device, key, run, told, taken>>

Entries(r) == r.size \div r.chunk

(* The blocks a random run draws from.                                     *)
PoolSize(r) ==
  IF r.aligned THEN (r.last + 1 - r.first) \div r.chunk ELSE (r.last + 1 - r.chunk) - r.first

Pool(r) == [i \in 1 .. PoolSize(r) |-> r.first + (i - 1) * (IF r.aligned THEN r.chunk ELSE 1)]

NotSupported(r) ==
  \/ ~r.random /\ r.size > r.last + 1 - r.first
  \/ Entries(r) > MaxEntries

Executer(r) ==
  /\ Idle /\ ~Advanced /\ ~NotSupported(r)
  /\ run' = [request |-> r, pool |-> Pool(r), left |-> PoolSize(r), entries |-> <<>>, issued |-> 0]
  /\ call' = [NoCall EXCEPT !.op = "perf", !.object = "perf", !.step = "draw",
                            !.sure = Sure("inner"), !.proven = Proven("inner")]
  /\ UNCHANGED <<device, register, copy, key, cmds, executed, sent, answer, history>>

Stop == Raise /\ run' = NoRun

Drawn == Len(run.entries)

(* Mutant: the counter of the first entry is that of all.                  *)
EntryCounterOfFirst(i) == copy["perf"]

EntryCounter(i) == copy["perf"] + i - 1

(* The MAC of an entry cannot be made for a counter beyond four bytes, and *)
(* nothing can be drawn from an empty pool.                                *)
DrawFails ==
  /\ call.step = "draw" /\ Drawn < Entries(run.request)
  /\ \/ run.request.write /\ EntryCounter(Drawn + 1) > MaxCounter
     \/ run.request.random /\ run.left <= 0
  /\ Stop
  /\ UNCHANGED <<device, copy, key, cmds, executed, sent, history>>

Draw(lba, pool, left) ==
  run' = [run EXCEPT !.entries = Append(@, lba), !.pool = pool, !.left = left]

DrawNext ==
  /\ ~run.request.random
  /\ Draw(run.request.first + Drawn * run.request.chunk, run.pool, run.left)

(* Mutant: what was drawn stays among the blocks to draw.                  *)
WithoutDrawnKept(i) == run.pool

(* The last block takes the place of the one drawn.                        *)
WithoutDrawn(i) == [run.pool EXCEPT ![i] = run.pool[run.left]]

DrawRandom(i) ==
  /\ run.request.random
  /\ IF run.request.overlap
     THEN Draw(run.pool[i], run.pool, run.left)
     ELSE Draw(run.pool[i], WithoutDrawn(i), run.left - 1)

(* Drawing the last block of the pool for an entry that is not the last    *)
(* raises: the next draw would find an empty pool.                         *)
DrawEntry ==
  /\ call.step = "draw" /\ Drawn < Entries(run.request)
  /\ run.request.write => EntryCounter(Drawn + 1) <= MaxCounter
  /\ DrawNext \/ \E i \in 1 .. run.left : DrawRandom(i)
  /\ UNCHANGED <<device, register, copy, key, cmds, executed, sent, answer, call, history>>

AllDrawn ==
  /\ call.step = "draw" /\ Drawn = Entries(run.request)
  /\ call' = [call EXCEPT !.step = "sdk"]
  /\ UNCHANGED <<device, register, copy, key, cmds, executed, sent, answer, run, history>>

(* The SDK issues one entry after the other and stops at the first failure.*)
Issue ==
  /\ call.step = "sdk" /\ run.issued < Drawn /\ register.result \in {NONE, "OK"}
  /\ LET i == run.issued + 1
         c == [Command("write") EXCEPT !.key = DefaultKey, !.counter = EntryCounter(i),
                                       !.fits = run.entries[i] + run.request.chunk <= Size]
     IN  IF run.request.write
         THEN \E result \in Results(c) :
                /\ device' = After(c, result) /\ register' = Register(c, result)
                /\ run' = IF result = "OK" THEN [run EXCEPT !.issued = i] ELSE run
         ELSE run' = [run EXCEPT !.issued = i] /\ UNCHANGED <<device, register>>
  /\ told' = StillTold
  /\ UNCHANGED <<copy, key, cmds, executed, sent, answer, call, taken, lost>>

SdkFails ==
  /\ call.step = "sdk" /\ Stop
  /\ UNCHANGED <<device, copy, key, cmds, executed, sent, history>>

(* The counter follows only when the run is through: all was written.      *)
Executed ==
  /\ call.step = "sdk" /\ run.issued = Drawn
  /\ IF run.request.write /\ Drawn > 0
     THEN /\ copy' = [copy EXCEPT !["perf"] = @ + Entries(run.request)]
          /\ told' = [told EXCEPT !["perf"] = EntryCounter(Drawn + 1)]
          /\ taken' = [taken EXCEPT !["inner"] = DefaultKey]
          /\ lost' = lost \ {"counter"}
     ELSE UNCHANGED <<copy, history>>
  /\ Return /\ run' = NoRun
  /\ UNCHANGED <<device, key, cmds, executed, sent>>

-----------------------------------------------------------------------------
(* Start: a device some earlier pattern used, and new objects.             *)
Init ==
  /\ device \in [mode : {"normal", "advanced"}, key : Keys \cup {NONE}, counter : Counters]
  /\ register = NoAnswer /\ answer = NoAnswer
  /\ copy = [o \in Copies |-> 0] /\ key = [o \in Objects |-> DefaultKey]
  /\ cmds = <<>> /\ executed = {} /\ sent = FALSE
  /\ call = NoCall /\ run = NoRun
  /\ told = Untold /\ taken = [o \in Objects |-> NONE] /\ lost = {}

(* What a pattern calls.                                                   *)
Calls ==
  \/ \E o \in Objects : NewObject(o)
  \/ ReadCounter("rpmb", NONE)
  \/ \E k \in Keys : ProgramKey("rpmb", k)
  \/ \E fits \in BOOLEAN : WriteData("rpmb", fits)
  \/ ReadData("rpmb")
  \/ RpmbInit
  \/ RpmbReset
  \/ \E r \in PerfRequests : Executer(r)
  \/ VucClearRpmbKey
  \/ \E n \in Counters : VucSetWriteCounter(n)
  \/ PatternClears

(* How a call goes on.                                                     *)
Steps ==
  \/ \E i \in DOMAIN cmds : Execute(i)
  \/ RequestSent
  \/ SendFails
  \/ BadStatus
  \/ CounterRead
  \/ CounterNotRead
  \/ KeyProgrammed
  \/ KeyNotProgrammed
  \/ DataWritten
  \/ DataRead
  \/ DrawFails
  \/ DrawEntry
  \/ AllDrawn
  \/ Issue
  \/ SdkFails
  \/ Executed

Next == Calls \/ Steps

Spec == Init /\ [][Next]_vars

-----------------------------------------------------------------------------
(* Properties *)

(* The counter an object was last told and the key the device last took of *)
(* it are the device's, unless another object wrote since, a vendor command*)
(* was sent or the answer of a call was lost: then nothing is told.  And   *)
(* the object has them, after any sequence of writes, also refused ones, of*)
(* several objects, performance runs, initialisations and failures, except *)
(* where the code itself overwrites what it was told: rpmb_reset makes the *)
(* performance class's counter 0 (rpmb_perf.py:113), and programming a key *)
(* the device then does not take puts the new key for the one it did take  *)
(* (rpmb.py:97).  Only these two are lost, and no others.                  *)
CopiesAreDevice ==
  /\ \A o \in Copies : told[o] # NONE =>
       /\ told[o] = device.counter
       /\ copy[o] = IF o = "perf" /\ "counter" \in lost THEN 0 ELSE told[o]
  /\ \A o \in Objects : taken[o] # NONE =>
       /\ taken[o] = device.key
       /\ key[o] = taken[o] <=> ~(o = "rpmb" /\ "key" \in lost)

(* The device refuses a write for its counter only when the object was not *)
(* told it, or another may have written since, or rpmb_reset overwrote what*)
(* it was told; and for its MAC only when the device had not taken the     *)
(* object's key, or a key it refused was put in its place.  The last of    *)
(* each is a fault of the code, which knew better.  No entry of a          *)
(* performance run, whose counters are computed beforehand, is refused for *)
(* those the run itself has written.                                       *)
RefusedOnlyInDoubt ==
  [][register' # register =>
       /\ register'.result = "COUNTER_FAILURE" => ~call.sure
       /\ register'.result = "AUTHENTICATION_FAILURE" => ~call.proven]_vars

(* The chunks drawn lie in the range asked for; they do not overlap in a   *)
(* sequential run, nor in a random one that is aligned and must not.       *)
ChunksAsAsked ==
  call.op = "perf" =>
    LET r == run.request IN
    \A i \in DOMAIN run.entries :
      /\ r.first <= run.entries[i] /\ run.entries[i] + r.chunk - 1 <= r.last
      /\ ~r.random \/ (r.aligned /\ ~r.overlap) =>
           \A j \in 1 .. i - 1 : \/ run.entries[i] + r.chunk <= run.entries[j]
                                \/ run.entries[j] + r.chunk <= run.entries[i]
=============================================================================
