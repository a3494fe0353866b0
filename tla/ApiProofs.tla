------------------------------ MODULE ApiProofs -------------------------------
(***************************************************************************)
(* Proofs about the C API: the life of a kernel instance (KernelInstance), *)
(* the runtime it lives in (Runtime) and the implementation an execution   *)
(* selects (Dispatch).                                                     *)
(*                                                                         *)
(* Kernel instances, for any configurations and block sizes.  Until an     *)
(* execution commits, what it created is in the local variable or marked   *)
(* as being created in place, and the state it found is untouched unless   *)
(* it has reset a channelizer.  It resets only blocks that processing      *)
(* cannot refuse any more: after the reset the stream starts at 0, for     *)
(* which the buffers have been checked.  A forecast stands as long as      *)
(* nothing that succeeds moves the state, and the hops between two         *)
(* positions are those counted from the phase of the first.                *)
(*                                                                         *)
(* The runtime, for any number of threads and kernels.  A thread is inside *)
(* a critical section exactly while it holds the mutex, so at most one     *)
(* kernel is in the making or being deleted, and the count misses the      *)
(* number of kernels by that one only.  A kernel that is to be freed is in *)
(* nobody else's hands.                                                    *)
(*                                                                         *)
(* The selection, for all processors, builds and requests.  The argument   *)
(* follows create_context: whatever a layer adds to a context works if its *)
(* condition holds, and the rest has worked before.                        *)
(***************************************************************************)
EXTENDS KernelInstance, Runtime, Dispatch, FiniteSetTheorems, TLAPS

-----------------------------------------------------------------------------
(* Kernel instances.                                                       *)

(* The inductive invariant.                                                *)

Untouched == (stage = "processing" /\ Given("reset")) \/ streaming = entered

(* Where the state of an execution is.                                     *)
Creation ==
  /\ stage \in {"idle", "entered"} => pending = NoState /\ ~creating
  /\ stage # "idle" /\ ~creating => Untouched
  /\ pending # NoState => streaming = NoState /\ entered = NoState /\ ~creating
  /\ creating => entered = NoState /\ streaming # NoState /\ kind # Pfb
  /\ stage \in {"created", "processing"} => Active # NoState

ResetIsSafe ==
  stage = "processing" =>
    kind = Pfb /\ (Given("reset") => ~BuffersRefused(PfbProcessHops))

Fits(state) ==
  state # NoState =>
    /\ params["config"] = state.config /\ params["context"] = "available"
    /\ stage # "idle" => state.position + request.count <= MaxPosition

IInv ==
  /\ TypeOK /\ FailureKeepsState /\ Creation /\ ResetIsSafe
  /\ Fits(streaming) /\ Fits(pending)

-----------------------------------------------------------------------------
(* Integer division.                                                       *)

LEMMA QuotientIsNat ==
  ASSUME NEW n \in Nat
  PROVE  n \div Decimation \in Nat
BY ConstantsAssumption

LEMMA QuotientGrows ==
  ASSUME NEW a \in Nat, NEW b \in Nat, a <= b
  PROVE  a \div Decimation <= b \div Decimation
BY ConstantsAssumption

LEMMA OutputCountIsNat ==
  ASSUME NEW phase \in 0 .. Decimation - 1, NEW count \in Nat
  PROVE  OutputCount(phase, count) \in Nat
<1> DEFINE first == IF phase = 0 THEN 0 ELSE Decimation - phase
<1>1. first \in Nat
  BY ConstantsAssumption
<1>2. CASE count = 0 \/ first >= count
  BY <1>2 DEF OutputCount
<1>3. CASE ~(count = 0 \/ first >= count)
  <2>1. count - 1 - first \in Nat
    BY <1>1, <1>3
  <2>2. (count - 1 - first) \div Decimation \in Nat
    BY <2>1, QuotientIsNat
  <2> QED
    BY <2>2, <1>3 DEF OutputCount
<1> QED
  BY <1>2, <1>3

LEMMA HopsIsNat ==
  ASSUME NEW position \in Nat, NEW count \in Nat
  PROVE  Hops(position, count) \in Nat
<1> DEFINE from == position + Decimation - 1
           to == position + count + Decimation - 1
<1>1. from \in Nat /\ to \in Nat /\ from <= to
  BY ConstantsAssumption
<1>2. /\ from \div Decimation \in Nat /\ to \div Decimation \in Nat
      /\ from \div Decimation <= to \div Decimation
  BY <1>1, QuotientIsNat, QuotientGrows
<1> QED
  BY <1>2 DEF Hops, HopsBefore

-----------------------------------------------------------------------------
(* Facts the steps share.                                                  *)

LEMMA TypesOfInstance ==
  ASSUME TypeOK
  PROVE  /\ streaming \in States \cup {NoState} /\ pending \in States \cup {NoState}
         /\ entered \in States \cup {NoState}
         /\ request.count \in BlockSizes \cup {0} /\ request.count \in Positions
         /\ request.capacity \in Nat
         /\ \A state \in States : state # NoState
BY ConstantsAssumption, NoStateAssumption DEF TypeOK, Requests, NoRequest, Positions

LEMMA ActiveInRange ==
  ASSUME IInv, stage \in {"created", "processing"}
  PROVE  /\ Active \in States /\ Active.position \in Nat
         /\ Active.position + request.count \in Positions
         /\ Active.config = params["config"] /\ params["context"] = "available"
<1>1. Active \in States
  BY TypesOfInstance DEF IInv, Creation, Active
<1>2. Active.position \in Nat /\ request.count \in Nat
  BY <1>1, TypesOfInstance, ConstantsAssumption DEF States, Positions, IInv
<1>3. /\ Active.position + request.count <= MaxPosition
      /\ Active.config = params["config"] /\ params["context"] = "available"
  BY TypesOfInstance DEF IInv, Fits, Creation, Active
<1> QED
  BY <1>1, <1>2, <1>3, ConstantsAssumption DEF Positions

(* The outputs counted from the buffers of a block that resets are those   *)
(* of the block after the reset.                                           *)
LEMMA ExpectedIsNat ==
  ASSUME IInv, stage \in {"created", "processing"}
  PROVE  Expected \in Nat /\ PfbProcessHops \in Nat
<1>1. Active.position % Decimation \in 0 .. Decimation - 1 /\ request.count \in Nat
  BY ActiveInRange, TypesOfInstance, ConstantsAssumption DEF IInv, Positions
<1>2. OutputCount(Active.position % Decimation, request.count) \in Nat
  BY <1>1, OutputCountIsNat
<1>3. request.count # 0 => (request.count - 1) \div Decimation \in Nat
  BY <1>1, QuotientIsNat
<1> QED
  BY <1>2, <1>3 DEF Expected, PfbProcessHops

LEMMA CallType ==
  ASSUME NEW operation \in Calls, NEW result \in Results, NEW count \in BlockSizes \cup {0},
         Answer(operation, result, count)
  PROVE  /\ answer' \in [call : Calls, result : Results, count : BlockSizes \cup {0}]
         /\ answer'.result = result
BY DEF Answer

(* However an execution returns, only its commands leave the parameters.   *)
LEMMA ReturnTypes ==
  ASSUME TypeOK, NEW result \in Results, Return(result)
  PROVE  /\ kind' \in Kinds /\ kind' = kind /\ stage' = "idle"
         /\ params' \in [Ids -> UNION {ParamValues(id) : id \in Ids}]
         /\ \A id \in Ids : params'[id] \in ParamValues(id)
         /\ params'["config"] = params["config"] /\ params'["context"] = params["context"]
         /\ pending' = NoState /\ creating' = FALSE /\ entered' = entered
         /\ request' = NoRequest /\ answer'.result = result
         /\ answer' \in [call : Calls, result : Results, count : BlockSizes \cup {0}]
<1>1. request.count \in BlockSizes \cup {0}
  BY TypesOfInstance
<1>2. Command \in Calls
  BY DEF Command, Calls
<1>3. Answer(Command, result, request.count)
  BY DEF Return
<1>4. /\ answer'.result = result
      /\ answer' \in [call : Calls, result : Results, count : BlockSizes \cup {0}]
  BY <1>1, <1>2, <1>3, CallType
<1>5. "off" \in ParamValues("reset") /\ "off" \in ParamValues("query")
  BY DEF ParamValues
<1>6. /\ params' = [params EXCEPT !["reset"] = "off", !["query"] = "off"]
      /\ {"reset", "query", "config", "context"} \subseteq Ids
  BY DEF Return, Ids, CreationIds, CommandIds
<1>7. \A id \in Ids : params'[id] = IF id \in {"reset", "query"} THEN "off" ELSE params[id]
  BY <1>6 DEF TypeOK
<1>8. \A id \in Ids : params'[id] \in ParamValues(id)
  BY <1>5, <1>7 DEF TypeOK
<1>9. params' \in [Ids -> UNION {ParamValues(id) : id \in Ids}]
  BY <1>6, <1>8 DEF TypeOK
<1> QED
  BY <1>4, <1>6, <1>7, <1>8, <1>9 DEF Return, TypeOK

-----------------------------------------------------------------------------
(* An execution that is refused leaves the state it found.                 *)
LEMMA RefusedStep ==
  ASSUME IInv, stage # "idle", NEW result \in Failures, Refused(result),
         stage = "processing" => ~Given("reset")
  PROVE  IInv'
<1>1. Return(result) /\ result \in Results
  BY DEF Refused, Results
<1>2. streaming' = entered
  BY DEF Refused, IInv, Creation, Untouched
<1>3. TypeOK'
  BY <1>1, <1>2, ReturnTypes DEF Refused, IInv, TypeOK
<1>4. FailureKeepsState' /\ Creation' /\ ResetIsSafe'
  BY <1>1, <1>2, ReturnTypes DEF IInv, FailureKeepsState, Creation, ResetIsSafe
<1>5. Fits(streaming)' /\ Fits(pending)'
  BY <1>1, <1>2, ReturnTypes DEF Refused, IInv, Fits
<1> QED
  BY <1>3, <1>4, <1>5 DEF IInv

(* An execution that succeeds commits the state it has.                    *)
LEMMA CommitStep ==
  ASSUME IInv, stage \in {"created", "processing"}, NEW position \in Positions,
         Commit(position),
         counted' \in Nat \cup {-1},
         foretold' \in [count : BlockSizes \cup {0}, hops : Nat \cup {-1}]
  PROVE  IInv'
<1>1. Return("SUCCESS") /\ "SUCCESS" \in Results /\ "SUCCESS" \notin Failures
  BY DEF Commit, Results, Failures
<1>2. streaming' \in States /\ streaming'.config = params["config"]
  BY ActiveInRange DEF Commit, States
<1>3. TypeOK'
  <2>1. kind' \in Kinds /\ pending' = NoState /\ entered' = entered
    BY <1>1, ReturnTypes DEF IInv
  <2>2. {streaming', pending', entered'} \subseteq States \cup {NoState}
    BY <2>1, <1>2 DEF IInv, TypeOK
  <2>3. /\ params' \in [Ids -> UNION {ParamValues(id) : id \in Ids}]
        /\ \A id \in Ids : params'[id] \in ParamValues(id)
    BY <1>1, ReturnTypes DEF IInv
  <2>4. creating' \in BOOLEAN /\ stage' = "idle" /\ request' = NoRequest
    BY <1>1, ReturnTypes DEF IInv
  <2>5. answer' \in [call : Calls, result : Results, count : BlockSizes \cup {0}]
    BY <1>1, ReturnTypes DEF IInv
  <2> QED
    BY <2>1, <2>2, <2>3, <2>4, <2>5 DEF TypeOK
<1>4. FailureKeepsState' /\ Creation' /\ ResetIsSafe'
  BY <1>1, ReturnTypes DEF IInv, FailureKeepsState, Creation, ResetIsSafe
<1>5. Fits(streaming)' /\ Fits(pending)'
  BY <1>1, <1>2, ActiveInRange, ReturnTypes DEF IInv, Fits
<1> QED
  BY <1>3, <1>4, <1>5 DEF IInv

(* A call that is one step and changes no execution.                       *)
LEMMA CallStep ==
  ASSUME IInv, NEW operation \in Calls, NEW result \in Results, NEW count \in BlockSizes \cup {0},
         Call(operation, result, count), UNCHANGED execution,
         UNCHANGED kind, UNCHANGED counted,
         result \in Failures => UNCHANGED streaming,
         streaming' \in States \cup {NoState},
         params' \in [Ids -> UNION {ParamValues(id) : id \in Ids}],
         \A id \in Ids : params'[id] \in ParamValues(id),
         streaming' # NoState =>
           params'["config"] = streaming'.config /\ params'["context"] = "available",
         foretold' \in {foretold, NoForecast}
  PROVE  IInv'
<1>1. /\ answer' \in [call : Calls, result : Results, count : BlockSizes \cup {0}]
      /\ answer'.result = result /\ entered' = streaming /\ stage = "idle"
  BY CallType DEF Call
<1>2. TypeOK'
  BY <1>1 DEF IInv, TypeOK, execution, NoForecast
<1>3. FailureKeepsState' /\ Creation' /\ ResetIsSafe'
  BY <1>1 DEF IInv, FailureKeepsState, Creation, ResetIsSafe, execution
<1>4. Fits(streaming)' /\ Fits(pending)'
  BY <1>1 DEF IInv, Creation, Fits, execution
<1> QED
  BY <1>2, <1>3, <1>4 DEF IInv

-----------------------------------------------------------------------------
(* Calls that are one step.                                                *)

LEMMA SetResultType ==
  ASSUME NEW id, NEW value
  PROVE  /\ SetResult(id, value) \in Results
         /\ SetResult(id, value) = "SUCCESS" =>
              value \in ParamValues(id) /\ ~(Created /\ id \in CreationIds)
BY DEF SetResult, Results, Failures

LEMMA SetParams ==
  ASSUME TypeOK, NEW id \in Ids, NEW value \in ParamValues(id)
  PROVE  LET new == [params EXCEPT ![id] = value]
         IN  /\ new \in [Ids -> UNION {ParamValues(other) : other \in Ids}]
             /\ \A other \in Ids : new[other] \in ParamValues(other)
             /\ \A other \in Ids \ {id} : new[other] = params[other]
<1> DEFINE new == [params EXCEPT ![id] = value]
<1>1. \A other \in Ids : new[other] = IF other = id THEN value ELSE params[other]
  BY DEF TypeOK
<1>2. \A other \in Ids : new[other] \in ParamValues(other)
  BY <1>1 DEF TypeOK
<1>3. new \in [Ids -> UNION {ParamValues(other) : other \in Ids}]
  BY <1>2 DEF TypeOK
<1> QED
  BY <1>1, <1>2, <1>3

(* Parameters that are still set fit the state that exists.                *)
LEMMA OldParams ==
  ASSUME IInv, stage = "idle"
  PROVE  /\ params \in [Ids -> UNION {ParamValues(id) : id \in Ids}]
         /\ \A id \in Ids : params[id] \in ParamValues(id)
         /\ Created => params["config"] = streaming.config /\ params["context"] = "available"
         /\ streaming \in States \cup {NoState}
         /\ {"config", "context"} \subseteq Ids /\ {"config", "context"} = CreationIds
BY TypesOfInstance DEF IInv, TypeOK, Fits, Created, Ids, CreationIds

LEMMA ParamSetStep ==
  ASSUME IInv, NEW id \in Ids, NEW value, ParamSet(id, value)
  PROVE  IInv'
<1> DEFINE result == SetResult(id, value)
<1>1. result \in Results /\ Call("configure", result, 0) /\ stage = "idle"
  BY SetResultType DEF ParamSet, Call
<1>2. /\ params' \in [Ids -> UNION {ParamValues(other) : other \in Ids}]
      /\ \A other \in Ids : params'[other] \in ParamValues(other)
  BY <1>1, OldParams, SetResultType, SetParams DEF ParamSet, IInv
<1>3. Created => params'["config"] = params["config"] /\ params'["context"] = params["context"]
  BY <1>1, OldParams, SetResultType, SetParams DEF ParamSet, IInv
<1>4. "configure" \in Calls
  BY DEF Calls
<1> HIDE DEF result
<1> QED
  BY <1>1, <1>2, <1>3, <1>4, CallStep, OldParams DEF ParamSet, Created

LEMMA ParamSetManyStep ==
  ASSUME IInv, NEW first \in Ids, NEW first_value, NEW second \in Ids, NEW second_value,
         ParamSetMany(first, first_value, second, second_value)
  PROVE  IInv'
<1> DEFINE one == SetResult(first, first_value)
           two == SetResult(second, second_value)
           result == IF one # "SUCCESS" THEN one ELSE two
           half == [params EXCEPT ![first] = first_value]
           new == [half EXCEPT ![second] = second_value]
<1>1. /\ result \in Results /\ Call("configure", result, 0) /\ stage = "idle"
      /\ params' = IF result = "SUCCESS" THEN new ELSE params
  BY SetResultType DEF ParamSetMany, Call
<1>2. ASSUME result = "SUCCESS"
      PROVE  /\ first_value \in ParamValues(first) /\ second_value \in ParamValues(second)
             /\ Created => first \notin CreationIds /\ second \notin CreationIds
  BY <1>2, SetResultType
<1>3. ASSUME result = "SUCCESS", NEW id \in Ids
      PROVE  new[id] = IF id = second THEN second_value
                       ELSE IF id = first THEN first_value ELSE params[id]
  BY <1>1, OldParams
<1>4. ASSUME result = "SUCCESS"
      PROVE  /\ new \in [Ids -> UNION {ParamValues(other) : other \in Ids}]
             /\ \A id \in Ids : new[id] \in ParamValues(id)
  <2>1. \A id \in Ids : new[id] \in ParamValues(id)
    BY <1>1, <1>2, <1>3, <1>4, OldParams
  <2> QED
    BY <1>1, <2>1, OldParams
<1>5. /\ params' \in [Ids -> UNION {ParamValues(other) : other \in Ids}]
      /\ \A id \in Ids : params'[id] \in ParamValues(id)
  BY <1>1, <1>4, OldParams
<1>6. Created => params'["config"] = params["config"] /\ params'["context"] = params["context"]
  BY <1>1, <1>2, <1>3, OldParams
<1>7. "configure" \in Calls
  BY DEF Calls
<1> HIDE DEF one, two, result, half, new
<1> QED
  BY <1>1, <1>5, <1>6, <1>7, CallStep, OldParams DEF ParamSetMany, Created

LEMMA ResetStep == ASSUME IInv, Reset PROVE IInv'
<1> DEFINE result == IF Created THEN "SUCCESS" ELSE "INVALID_STATE"
<1>1. /\ result \in Results /\ Call("reset", result, 0) /\ "reset" \in Calls
      /\ result \in Failures <=> ~Created
  BY DEF Reset, Results, Failures, Calls
<1>2. /\ params' \in [Ids -> UNION {ParamValues(id) : id \in Ids}]
      /\ \A id \in Ids : params'[id] \in ParamValues(id)
      /\ params'["config"] = params["config"] /\ params'["context"] = params["context"]
  <2>1. "off" \in ParamValues("reset") /\ "reset" \in Ids
    BY DEF ParamValues, Ids, CommandIds
  <2> QED
    BY <1>1, <2>1, OldParams, SetParams DEF Reset, Call, IInv
<1>3. streaming' \in States \cup {NoState} /\ (Created => streaming'.config = streaming.config)
  BY <1>1, OldParams, ConstantsAssumption DEF Reset, Call, States, Positions, Created
<1>4. streaming' # NoState => Created
  BY DEF Reset, Created
<1>5. foretold' \in {foretold, NoForecast} /\ (~Created => UNCHANGED streaming)
  BY DEF Reset, ForgetForecast
<1> HIDE DEF result
<1> QED
  BY <1>1, <1>2, <1>3, <1>4, <1>5, CallStep, OldParams DEF Reset, Call

LEMMA CopyStateStep ==
  ASSUME IInv, NEW source \in States \cup {NoState}, CopyState(source)
  PROVE  IInv'
<1> DEFINE result == CopyStateResult(source)
<1>1. /\ result \in Results /\ Call("copy", result, 0) /\ "copy" \in Calls
      /\ result \in Failures <=> result # "SUCCESS"
      /\ result = "SUCCESS" => Created /\ source # NoState /\ source.config = streaming.config
  BY DEF CopyState, CopyStateResult, Results, Failures, Calls
<1>2. foretold' \in {foretold, NoForecast}
  BY DEF CopyState, ForgetForecast
<1>3. streaming' = IF result = "SUCCESS" THEN source ELSE streaming
  BY DEF CopyState
<1> HIDE DEF result
<1> QED
  BY <1>1, <1>2, <1>3, CallStep, OldParams DEF CopyState, Call, Created

LEMMA PassStep ==
  ASSUME IInv, NEW count \in BlockSizes, NEW data \in BOOLEAN, Pass(count, data)
  PROVE  IInv'
<1> DEFINE result == PassResult(count, data)
<1>1. /\ result \in Results /\ Call("pass", result, count) /\ "pass" \in Calls
      /\ result \in Failures <=> result # "SUCCESS"
      /\ result = "SUCCESS" => Created
  BY DEF Pass, PassResult, Results, Failures, Calls
<1>2. foretold' \in {foretold, NoForecast}
  BY DEF Pass, ForgetForecast
<1>3. /\ streaming' = IF result = "SUCCESS" THEN [streaming EXCEPT !.position = @ + count]
                      ELSE streaming
      /\ Created => streaming.position + count <= MaxPosition
  BY DEF Pass
<1> HIDE DEF result
<1>4. streaming' \in States \cup {NoState} /\ (Created => streaming'.config = streaming.config)
  BY <1>1, <1>3, OldParams, ConstantsAssumption DEF Call, States, Positions, Created
<1> QED
  BY <1>1, <1>2, <1>3, <1>4, CallStep, OldParams DEF Pass, Call, Created

LEMMA RotateStep ==
  ASSUME IInv, NEW turns \in BOOLEAN, Rotate(turns)
  PROVE  IInv'
<1> DEFINE result == RotateResult(turns)
<1>1. result \in Results /\ Call("rotate", result, 0) /\ "rotate" \in Calls
  BY DEF Rotate, RotateResult, Results, Failures, Calls
<1> HIDE DEF result
<1> QED
  BY <1>1, CallStep, OldParams DEF Rotate, Call, Created

-----------------------------------------------------------------------------
(* Steps of an execution that neither refuse nor complete it.              *)

LEMMA ExecuteStep ==
  ASSUME IInv, NEW block \in Requests(kind), Execute(block)
  PROVE  IInv'
<1>1. TypeOK'
  BY DEF IInv, TypeOK, Execute, instance
<1>2. FailureKeepsState' /\ Creation' /\ ResetIsSafe'
  BY DEF IInv, FailureKeepsState, Creation, Untouched, ResetIsSafe, Execute, instance
<1>3. Fits(streaming)' /\ Fits(pending)'
  BY DEF IInv, Fits, Creation, Execute, instance, Created
<1> QED
  BY <1>1, <1>2, <1>3 DEF IInv

LEMMA CreateStep == ASSUME IInv, Create PROVE IInv'
<1> DEFINE made == [config |-> params["config"], position |-> 0]
<1>1. made \in States /\ made # NoState
  BY ConstantsAssumption, NoStateAssumption DEF Create, States, Positions
<1>2. /\ stage = "entered" /\ stage' = "created" /\ params["context"] = "available"
      /\ streaming = NoState /\ entered = NoState /\ pending = NoState /\ ~creating
  <2>1. params["context"] \in {"available", "unavailable"}
    BY DEF IInv, TypeOK, Ids, CreationIds, ParamValues
  <2> QED
    BY <2>1 DEF Create, ArgumentsAccepted, ContextMissing, Created, IInv, Creation, Untouched
<1>3. \/ streaming' = made /\ creating' = TRUE /\ pending' = NoState /\ kind # Pfb
      \/ streaming' = NoState /\ creating' = FALSE /\ pending' = made
  BY <1>2 DEF Create, IInv, TypeOK, CreatedInPlace, Pfb, SymbolSync, Viterbi
<1>4. UNCHANGED <<kind, params, request, counted, answer, entered, foretold>>
  BY DEF Create
<1> HIDE DEF made
<1>5. TypeOK'
  <2>1. {streaming', pending', entered'} \subseteq States \cup {NoState}
    BY <1>1, <1>2, <1>3, <1>4
  <2>2. creating' \in BOOLEAN /\ stage' \in {"idle", "entered", "created", "processing"}
    BY <1>2, <1>3
  <2>3. kind' \in Kinds /\ request' \in Requests(kind') \cup {NoRequest}
    BY <1>4 DEF IInv, TypeOK
  <2>4. /\ params' \in [Ids -> UNION {ParamValues(id) : id \in Ids}]
        /\ \A id \in Ids : params'[id] \in ParamValues(id)
    BY <1>4 DEF IInv, TypeOK
  <2>5. /\ counted' \in Nat \cup {-1}
        /\ answer' \in [call : Calls, result : Results, count : BlockSizes \cup {0}]
        /\ foretold' \in [count : BlockSizes \cup {0}, hops : Nat \cup {-1}]
    BY <1>4 DEF IInv, TypeOK
  <2> QED
    BY <2>1, <2>2, <2>3, <2>4, <2>5 DEF TypeOK
<1>6. FailureKeepsState' /\ Creation' /\ ResetIsSafe'
  BY <1>1, <1>2, <1>3, <1>4
  DEF IInv, FailureKeepsState, Creation, Untouched, ResetIsSafe, Active
<1>7. made.config = params["config"] /\ made.position + request.count <= MaxPosition
  BY TypesOfInstance DEF made, IInv, Positions
<1>8. Fits(streaming)' /\ Fits(pending)'
  BY <1>2, <1>3, <1>4, <1>7 DEF Fits
<1> QED
  BY <1>5, <1>6, <1>8 DEF IInv

LEMMA UseCreatedStep == ASSUME IInv, UseCreated PROVE IInv'
<1>1. stage = "entered"
  BY DEF UseCreated, ArgumentsAccepted
<1>2. TypeOK'
  BY DEF IInv, TypeOK, UseCreated, instance
<1>3. FailureKeepsState' /\ Creation' /\ ResetIsSafe'
  BY <1>1 DEF IInv, FailureKeepsState, Creation, Untouched, ResetIsSafe, Active,
              UseCreated, instance, Created
<1>4. Fits(streaming)' /\ Fits(pending)'
  BY <1>1 DEF IInv, Fits, UseCreated, instance
<1> QED
  BY <1>2, <1>3, <1>4 DEF IInv

(* After the reset a channelizer produces the outputs the buffers were     *)
(* checked for.                                                            *)
LEMMA ResetProducesExpected ==
  ASSUME IInv, Given("reset"), stage = "created", MoveActiveTo(0), UNCHANGED <<request, params>>
  PROVE  /\ Active' = [Active EXCEPT !.position = 0]
         /\ PfbProcessHops' = Expected
<1>1. Active' = [Active EXCEPT !.position = 0] /\ Active \in States
  <2>1. streaming \in States \cup {NoState} /\ pending \in States \cup {NoState}
    BY TypesOfInstance DEF IInv
  <2>2. \A state \in States : [state EXCEPT !.position = 0] \in States
    BY ConstantsAssumption DEF States, Positions
  <2>3. pending' # NoState <=> pending # NoState
    BY <2>1, <2>2, NoStateAssumption DEF MoveActiveTo
  <2> QED
    BY <2>3, ActiveInRange DEF MoveActiveTo, Active
<1>2. Active'.position = 0
  BY <1>1 DEF States
<1>3. 0 % Decimation = 0 /\ request.count \in Nat
  BY ConstantsAssumption, TypesOfInstance DEF IInv, Positions
<1>4. OutputCount(0, request.count) = Expected
  <2>1. request.count - 1 - 0 = request.count - 1
    BY <1>3
  <2> QED
    BY <1>3, <2>1 DEF OutputCount, Expected
<1> QED
  BY <1>1, <1>2, <1>3, <1>4 DEF PfbProcessHops

LEMMA PfbResetAcceptedStep == ASSUME IInv, PfbResetAccepted PROVE IInv'
<1>1. /\ stage = "created" /\ stage' = "processing" /\ kind = Pfb /\ ~creating
      /\ UNCHANGED <<kind, params, creating, request, counted, answer, entered, foretold>>
  BY DEF PfbResetAccepted, PfbBlock, PfbArguments, IInv, Creation
<1>2. CASE ~Given("reset")
  <2>1. UNCHANGED <<streaming, pending>> /\ ~Given("reset")'
    BY <1>1, <1>2 DEF PfbResetAccepted, Given
  <2>2. TypeOK' /\ FailureKeepsState' /\ Fits(streaming)' /\ Fits(pending)'
    BY <1>1, <2>1 DEF IInv, TypeOK, FailureKeepsState, Fits
  <2>3. Creation' /\ ResetIsSafe'
    BY <1>1, <1>2, <2>1 DEF IInv, Creation, Untouched, ResetIsSafe, Active
  <2> QED
    BY <2>2, <2>3 DEF IInv
<1>3. CASE Given("reset")
  <2>1. MoveActiveTo(0) /\ ~BuffersRefused(Expected) /\ Given("reset")'
    BY <1>1, <1>3 DEF PfbResetAccepted, Given
  <2>2. /\ Active' = [Active EXCEPT !.position = 0] /\ PfbProcessHops' = Expected
        /\ Active \in States
    BY <1>1, <1>3, <2>1, ResetProducesExpected, ActiveInRange
  <2>3. streaming \in States \cup {NoState} /\ pending \in States \cup {NoState}
    BY TypesOfInstance DEF IInv
  <2>4. \A state \in States :
          /\ [state EXCEPT !.position = 0] \in States
          /\ [state EXCEPT !.position = 0].config = state.config
          /\ [state EXCEPT !.position = 0].position = 0
    BY ConstantsAssumption DEF States, Positions
  <2>5. /\ streaming' \in States \cup {NoState} /\ pending' \in States \cup {NoState}
        /\ streaming' = NoState <=> streaming = NoState
        /\ pending' = NoState <=> pending = NoState
        /\ streaming' # NoState => streaming'.config = streaming.config
        /\ pending' # NoState => pending'.config = pending.config
        /\ pending' # NoState => pending'.position = 0
        /\ pending' = NoState => streaming'.position = 0
        /\ pending' # NoState => streaming' = NoState
    BY <1>1, <2>1, <2>2, <2>3, <2>4, NoStateAssumption
    DEF MoveActiveTo, IInv, Creation, Active
  <2>6. TypeOK' /\ FailureKeepsState'
    BY <1>1, <2>5 DEF IInv, TypeOK, FailureKeepsState
  <2>7. request.count <= MaxPosition /\ request.count \in Nat
    BY TypesOfInstance DEF IInv, Positions
  <2>8. Fits(streaming)' /\ Fits(pending)'
    BY <1>1, <2>5, <2>7 DEF IInv, Fits
  <2>9. Creation'
    BY <1>1, <2>1, <2>5 DEF IInv, Creation, Untouched, Active
  <2>10. ResetIsSafe'
    BY <1>1, <2>1, <2>2, <2>4 DEF ResetIsSafe, BuffersRefused
  <2> QED
    BY <2>6, <2>8, <2>9, <2>10 DEF IInv
<1> QED
  BY <1>2, <1>3

-----------------------------------------------------------------------------
(* Steps that complete an execution.                                       *)

LEMMA ContextRefusedStep == ASSUME IInv, ContextRefused PROVE IInv'
BY RefusedStep DEF ContextRefused, Failures

LEMMA ArgumentsRefusedStep == ASSUME IInv, ArgumentsRefused PROVE IInv'
BY RefusedStep DEF ArgumentsRefused, Failures

LEMMA CreateRefusedStep == ASSUME IInv, CreateRefused PROVE IInv'
BY RefusedStep DEF CreateRefused, ArgumentsAccepted, Failures

LEMMA PfbArgumentsRefusedStep == ASSUME IInv, PfbArgumentsRefused PROVE IInv'
BY RefusedStep DEF PfbArgumentsRefused, Failures

LEMMA PfbResetRefusedStep == ASSUME IInv, PfbResetRefused PROVE IInv'
BY RefusedStep DEF PfbResetRefused, PfbBlock, PfbArguments, BuffersResult, Failures

LEMMA PfbProcessRefusedStep == ASSUME IInv, PfbProcessRefused PROVE IInv'
BY RefusedStep DEF PfbProcessRefused, IInv, ResetIsSafe, Failures

LEMMA BlockRefusedStep == ASSUME IInv, BlockRefused PROVE IInv'
BY RefusedStep DEF BlockRefused, Failures

LEMMA PfbWithoutInputStep == ASSUME IInv, PfbWithoutInput PROVE IInv'
<1> DEFINE position == IF Given("reset") THEN 0 ELSE Active.position
<1>1. stage = "created" /\ Commit(position)
  BY DEF PfbWithoutInput, PfbArguments
<1>2. position \in Positions
  BY <1>1, ActiveInRange, ConstantsAssumption DEF States, Positions
<1>3. counted' \in Nat \cup {-1}
  BY DEF PfbWithoutInput, Count, IInv, TypeOK
<1>4. foretold' \in [count : BlockSizes \cup {0}, hops : Nat \cup {-1}]
  BY DEF PfbWithoutInput, NoForecast
<1> HIDE DEF position
<1> QED
  BY <1>1, <1>2, <1>3, <1>4, CommitStep

LEMMA PfbQueryStep == ASSUME IInv, PfbQuery PROVE IInv'
<1>1. stage = "created" /\ Commit(Active.position)
  BY DEF PfbQuery, PfbArguments
<1>2. Active.position \in Positions /\ Expected \in Nat
  BY <1>1, ActiveInRange, ExpectedIsNat DEF States
<1>3. counted' \in Nat \cup {-1}
  BY <1>2 DEF PfbQuery, Count, IInv, TypeOK
<1>4. foretold' \in [count : BlockSizes \cup {0}, hops : Nat \cup {-1}]
  BY <1>2, TypesOfInstance DEF PfbQuery, IInv
<1> QED
  BY <1>1, <1>2, <1>3, <1>4, CommitStep

LEMMA PfbProcessStep == ASSUME IInv, PfbProcess PROVE IInv'
<1>1. stage = "processing" /\ Commit(Active.position + request.count)
  BY DEF PfbProcess
<1>2. /\ Active.position + request.count \in Positions
      /\ Active.position \in Nat /\ request.count \in Nat
  BY <1>1, ActiveInRange, TypesOfInstance DEF IInv, Positions
<1>3. Hops(Active.position, request.count) \in Nat
  BY <1>2, HopsIsNat
<1>4. counted' \in Nat \cup {-1}
  BY <1>3 DEF PfbProcess, Count, IInv, TypeOK
<1>5. foretold' \in [count : BlockSizes \cup {0}, hops : Nat \cup {-1}]
  BY DEF PfbProcess, NoForecast
<1> QED
  BY <1>1, <1>2, <1>4, <1>5, CommitStep

LEMMA BlockProcessStep == ASSUME IInv, BlockProcess PROVE IInv'
<1>1. stage = "created" /\ Commit(Active.position + request.count)
  BY DEF BlockProcess
<1>2. Active.position + request.count \in Positions
  BY <1>1, ActiveInRange
<1>3. /\ counted' \in Nat \cup {-1}
      /\ foretold' \in [count : BlockSizes \cup {0}, hops : Nat \cup {-1}]
  BY DEF BlockProcess, IInv, TypeOK
<1> QED
  BY <1>1, <1>2, <1>3, CommitStep

-----------------------------------------------------------------------------
(* The invariant holds, and the properties follow.                         *)

LEMMA InitInv == Init => IInv
<1> SUFFICES ASSUME Init PROVE IInv
  OBVIOUS
<1>1. \A id \in Ids : Defaults[id] \in ParamValues(id)
  BY DEF Defaults, ParamValues, Ids, CreationIds, CommandIds
<1>2. Defaults \in [Ids -> UNION {ParamValues(id) : id \in Ids}]
  BY <1>1 DEF Defaults
<1>3. TypeOK
  BY <1>1, <1>2 DEF Init, TypeOK, NoForecast, Calls, Results
<1>4. FailureKeepsState /\ Creation /\ ResetIsSafe /\ Fits(streaming) /\ Fits(pending)
  BY DEF Init, FailureKeepsState, Creation, ResetIsSafe, Fits
<1> QED
  BY <1>3, <1>4 DEF IInv

LEMMA ExecutingInv == IInv /\ Executing => IInv'
BY ContextRefusedStep, ArgumentsRefusedStep, CreateRefusedStep, CreateStep, UseCreatedStep,
   PfbArgumentsRefusedStep, PfbWithoutInputStep, PfbQueryStep, PfbResetRefusedStep,
   PfbResetAcceptedStep, PfbProcessRefusedStep, PfbProcessStep, BlockRefusedStep,
   BlockProcessStep
DEF Executing

LEMMA StutterInv == IInv /\ UNCHANGED vars => IInv'
<1> SUFFICES ASSUME IInv, UNCHANGED vars PROVE IInv'
  OBVIOUS
<1> USE DEF vars, instance, execution
<1>1. TypeOK' /\ FailureKeepsState'
  BY DEF IInv, TypeOK, FailureKeepsState
<1>2. Creation' /\ Fits(streaming)' /\ Fits(pending)'
  BY DEF IInv, Creation, Untouched, Given, Active, Fits
<1>3. ResetIsSafe'
  BY DEF IInv, ResetIsSafe, Given, BuffersRefused, PfbProcessHops, Active
<1> QED
  BY <1>1, <1>2, <1>3 DEF IInv

LEMMA NextInv == IInv /\ [Next]_vars => IInv'
<1> SUFFICES ASSUME IInv, [Next]_vars PROVE IInv'
  OBVIOUS
<1>1. CASE Executing
  BY <1>1, ExecutingInv
<1>2. CASE Reset
  BY <1>2, ResetStep
<1>3. ASSUME NEW block \in Requests(kind), Execute(block) PROVE IInv'
  BY <1>3, ExecuteStep
<1>4. ASSUME NEW id \in Ids, NEW value \in GivenValues(id), ParamSet(id, value) PROVE IInv'
  BY <1>4, ParamSetStep
<1>5. ASSUME NEW first \in Ids, NEW second \in Ids,
             NEW first_value \in GivenValues(first), NEW second_value \in GivenValues(second),
             ParamSetMany(first, first_value, second, second_value)
      PROVE  IInv'
  BY <1>5, ParamSetManyStep
<1>6. ASSUME NEW source \in States \cup {NoState}, CopyState(source) PROVE IInv'
  BY <1>6, CopyStateStep
<1>7. ASSUME NEW count \in BlockSizes, NEW data \in BOOLEAN, Pass(count, data) PROVE IInv'
  BY <1>7, PassStep
<1>8. ASSUME NEW turns \in BOOLEAN, Rotate(turns) PROVE IInv'
  BY <1>8, RotateStep
<1>9. CASE UNCHANGED vars
  BY <1>9, StutterInv
<1> QED
  BY <1>1, <1>2, <1>3, <1>4, <1>5, <1>6, <1>7, <1>8, <1>9 DEF Next

(* The invariant of the argument above holds in every state a sequence of  *)
(* calls on one kernel handle can reach.                                   *)
THEOREM Invariance == Spec => []IInv
BY InitInv, NextInv, PTL DEF Spec

(* The fields of a kernel handle, and the locals of the execution on it,   *)
(* keep their types; in particular no value above its limit is ever        *)
(* stored by uni_simd_kernel_param_set.                                    *)
THEOREM TypeCorrect == Spec => []TypeOK
<1>1. IInv => TypeOK
  BY DEF IInv
<1> QED
  BY <1>1, Invariance, PTL

(* A call that fails at any of its checks leaves the kernel's state as it  *)
(* found it.                                                               *)
THEOREM FailuresKeepState == Spec => []FailureKeepsState
<1>1. IInv => FailureKeepsState
  BY DEF IInv
<1> QED
  BY <1>1, Invariance, PTL

(* As long as a kernel has state its creation parameters are those the     *)
(* state was created from.                                                 *)
THEOREM ParametersCorrect == Spec => []ParametersFitState
<1>1. IInv => ParametersFitState
  BY DEF IInv, Fits, Created, ParametersFitState
<1> QED
  BY <1>1, Invariance, PTL

-----------------------------------------------------------------------------
(* The refinement needs more: where the state of an execution continues,   *)
(* and which commands it can find.                                         *)

Restarted == entered = NoState \/ (stage = "processing" /\ Given("reset"))

Continues ==
  stage \in {"created", "processing"} =>
    /\ Active.position = IF Restarted THEN 0 ELSE entered.position
    /\ entered # NoState => entered.config = Active.config

CommandsFit ==
  /\ kind # Pfb => ~Given("reset") /\ ~Given("query")
  /\ stage = "processing" => ~Given("query")

RInv == IInv /\ Continues /\ CommandsFit

(* An execution that ends has taken its commands.                          *)
LEMMA ReturnKeepsRInv ==
  ASSUME IInv, IInv', CommandsFit, NEW result \in Results, Return(result)
  PROVE  Continues' /\ CommandsFit'
<1>1. stage' = "idle" /\ kind' = kind
  BY ReturnTypes DEF IInv
<1>2. ~Given("reset")' /\ ~Given("query")'
  <2>1. {"reset", "query"} \subseteq Ids
    BY DEF Ids, CommandIds
  <2> QED
    BY <2>1 DEF Return, Given, IInv, TypeOK
<1> QED
  BY <1>1, <1>2 DEF Continues, CommandsFit

LEMMA ReturningRInv ==
  ASSUME IInv, IInv', CommandsFit,
         (\E result \in Failures : Refused(result))
           \/ (\E position \in Nat : Commit(position))
  PROVE  Continues' /\ CommandsFit'
<1>1. PICK result \in Results : Return(result)
  BY DEF Refused, Commit, Results
<1> QED
  BY <1>1, ReturnKeepsRInv

(* The steps that return, by how they do.                                  *)
Refusing ==
  \/ ContextRefused \/ ArgumentsRefused \/ CreateRefused \/ PfbArgumentsRefused
  \/ PfbResetRefused \/ PfbProcessRefused \/ BlockRefused

LEMMA RefusingStep ==
  ASSUME IInv, Refusing
  PROVE  /\ \E result \in Failures : Refused(result)
         /\ stage # "idle" /\ (stage = "processing" => ~Given("reset"))
<1>1. CASE ContextRefused
  BY <1>1 DEF ContextRefused, Failures
<1>2. CASE ArgumentsRefused
  BY <1>2 DEF ArgumentsRefused, Failures
<1>3. CASE CreateRefused
  BY <1>3 DEF CreateRefused, ArgumentsAccepted, Failures
<1>4. CASE PfbArgumentsRefused
  BY <1>4 DEF PfbArgumentsRefused, Failures
<1>5. CASE PfbResetRefused
  BY <1>5 DEF PfbResetRefused, PfbBlock, PfbArguments, BuffersResult, Failures
<1>6. CASE PfbProcessRefused
  BY <1>6 DEF PfbProcessRefused, IInv, ResetIsSafe, Failures
<1>7. CASE BlockRefused
  BY <1>7 DEF BlockRefused, Failures
<1> QED
  BY <1>1, <1>2, <1>3, <1>4, <1>5, <1>6, <1>7 DEF Refusing

Committing == PfbWithoutInput \/ PfbQuery \/ PfbProcess \/ BlockProcess

(* What an execution that succeeds does with its block.                    *)
CommittedPosition ==
  CASE Command = "restart" -> request.count
    [] Command = "query" -> Active.position
    [] OTHER -> Active.position + request.count

LEMMA CommittingStep ==
  ASSUME RInv, Committing
  PROVE  /\ stage \in {"created", "processing"}
         /\ Commit(CommittedPosition) /\ CommittedPosition \in Nat
         /\ Command = "query" => stage = "created"
<1>1. stage \in {"created", "processing"}
  BY DEF Committing, PfbWithoutInput, PfbQuery, PfbArguments, PfbProcess, BlockProcess
<1>2. Active.position \in Nat /\ request.count \in Nat
  BY <1>1, ActiveInRange, TypesOfInstance DEF RInv, IInv, Positions
<1>3. Command = "query" <=> Given("query")
  BY DEF Command
<1>4. Command = "restart" <=> Given("reset") /\ ~Given("query")
  BY DEF Command
<1>5. CASE PfbWithoutInput
  <2>1. request.count = 0 /\ ~Given("query") /\ stage = "created"
    BY <1>5 DEF PfbWithoutInput, PfbArguments, RInv, IInv, TypeOK, Requests, NoRequest
  <2>2. Commit(IF Given("reset") THEN 0 ELSE Active.position)
    BY <1>5 DEF PfbWithoutInput
  <2>3. CommittedPosition = IF Given("reset") THEN 0 ELSE Active.position
    BY <2>1, <1>2, <1>3, <1>4 DEF CommittedPosition
  <2> QED
    BY <2>1, <2>2, <2>3, <1>1, <1>2, <1>3
<1>6. CASE PfbQuery
  BY <1>6, <1>1, <1>2, <1>3, <1>4 DEF PfbQuery, PfbArguments, CommittedPosition
<1>7. CASE PfbProcess
  <2>1. stage = "processing" /\ ~Given("query") /\ Commit(Active.position + request.count)
    BY <1>7 DEF PfbProcess, RInv, CommandsFit
  <2>2. Given("reset") => Active.position = 0
    BY <2>1 DEF RInv, Continues, Restarted
  <2>3. CommittedPosition = Active.position + request.count
    BY <2>1, <2>2, <1>2, <1>3, <1>4 DEF CommittedPosition
  <2> QED
    BY <2>1, <2>3, <1>1, <1>2, <1>3
<1>8. CASE BlockProcess
  <2>1. ~Given("query") /\ ~Given("reset") /\ Commit(Active.position + request.count)
    BY <1>8 DEF BlockProcess, RInv, CommandsFit
  <2>2. CommittedPosition = Active.position + request.count
    BY <2>1, <1>3, <1>4 DEF CommittedPosition
  <2> QED
    BY <2>1, <2>2, <1>1, <1>2, <1>3
<1> QED
  BY <1>5, <1>6, <1>7, <1>8 DEF Committing

LEMMA RInvInit == Init => RInv
<1> SUFFICES ASSUME Init PROVE RInv
  OBVIOUS
<1>1. Defaults["reset"] = "off" /\ Defaults["query"] = "off"
  BY DEF Defaults, Ids, CommandIds
<1> QED
  BY <1>1, InitInv DEF RInv, Init, Continues, CommandsFit, Given

LEMMA RInvCreate == ASSUME RInv, Create PROVE Continues' /\ CommandsFit'
<1> DEFINE made == [config |-> params["config"], position |-> 0]
<1>1. /\ stage = "entered" /\ stage' = "created" /\ entered = NoState /\ pending = NoState
      /\ UNCHANGED <<kind, params, entered>>
  BY DEF Create, ArgumentsAccepted, Created, RInv, IInv, Creation, Untouched
<1>2. made # NoState
  BY ConstantsAssumption, NoStateAssumption DEF Create, States, Positions
<1>3. Active' = made
  BY <1>1, <1>2 DEF Create, Active
<1> QED
  BY <1>1, <1>3 DEF RInv, Continues, CommandsFit, Restarted, Given

LEMMA RInvUseCreated == ASSUME RInv, UseCreated PROVE Continues' /\ CommandsFit'
<1>1. /\ stage = "entered" /\ stage' = "created"
      /\ streaming = entered /\ pending = NoState /\ entered # NoState
      /\ UNCHANGED <<kind, params, streaming, pending, entered>>
  BY DEF UseCreated, ArgumentsAccepted, Created, RInv, IInv, Creation, Untouched, instance
<1>2. Active' = entered'
  BY <1>1 DEF Active
<1> QED
  BY <1>1, <1>2 DEF RInv, Continues, CommandsFit, Restarted, Given

LEMMA RInvPfbResetAccepted == ASSUME RInv, PfbResetAccepted PROVE Continues' /\ CommandsFit'
<1>1. /\ stage = "created" /\ stage' = "processing" /\ ~Given("query")
      /\ UNCHANGED <<kind, params, request, entered>>
  BY DEF PfbResetAccepted, PfbBlock, PfbArguments
<1>2. CommandsFit' /\ (Given("reset")' <=> Given("reset"))
  BY <1>1 DEF RInv, CommandsFit, Given
<1>3. CASE Given("reset")
  <2>1. Active' = [Active EXCEPT !.position = 0] /\ Active \in States
    BY <1>1, <1>3, ResetProducesExpected, ActiveInRange DEF PfbResetAccepted, RInv
  <2>2. Active'.position = 0 /\ Active'.config = Active.config
    BY <2>1 DEF States
  <2> QED
    BY <1>1, <1>2, <1>3, <2>2 DEF RInv, Continues, Restarted
<1>4. CASE ~Given("reset")
  <2>1. Active' = Active
    BY <1>4 DEF PfbResetAccepted, Active
  <2> QED
    BY <1>1, <1>2, <1>4, <2>1 DEF RInv, Continues, Restarted
<1> QED
  BY <1>3, <1>4

(* Calls that set parameters know for which kinds commands are meant.      *)
LEMMA SetCommand ==
  ASSUME NEW id, NEW value, SetResult(id, value) = "SUCCESS", kind # Pfb
  PROVE  id \in CreationIds
BY DEF SetResult, Allowed

LEMMA RInvCall ==
  ASSUME RInv, stage = "idle", UNCHANGED <<kind, execution>>,
         \A id \in {"reset", "query"} :
           params'[id] = params[id] \/ params'[id] = "off" \/ kind = Pfb
  PROVE  Continues' /\ CommandsFit'
BY DEF RInv, Continues, CommandsFit, Given, execution

LEMMA RInvParamSet ==
  ASSUME RInv, NEW id \in Ids, NEW value, ParamSet(id, value)
  PROVE  Continues' /\ CommandsFit'
<1>1. {"reset", "query"} \subseteq Ids /\ {"reset", "query"} \cap CreationIds = {}
  BY DEF Ids, CommandIds, CreationIds
<1>2. \A other \in {"reset", "query"} : params'[other] = params[other] \/ kind = Pfb
  BY <1>1, SetCommand DEF ParamSet, RInv, IInv, TypeOK
<1> QED
  BY <1>2, RInvCall DEF ParamSet, Call

LEMMA RInvParamSetMany ==
  ASSUME RInv, NEW first \in Ids, NEW first_value, NEW second \in Ids, NEW second_value,
         ParamSetMany(first, first_value, second, second_value)
  PROVE  Continues' /\ CommandsFit'
<1>1. {"reset", "query"} \subseteq Ids /\ {"reset", "query"} \cap CreationIds = {}
  BY DEF Ids, CommandIds, CreationIds
<1>2. \A other \in {"reset", "query"} : params'[other] = params[other] \/ kind = Pfb
  BY <1>1, SetCommand DEF ParamSetMany, RInv, IInv, TypeOK
<1> QED
  BY <1>2, RInvCall DEF ParamSetMany, Call

LEMMA RInvReset == ASSUME RInv, Reset PROVE Continues' /\ CommandsFit'
<1>1. {"reset", "query"} \subseteq Ids
  BY DEF Ids, CommandIds
<1>2. \A id \in {"reset", "query"} : params'[id] = params[id] \/ params'[id] = "off"
  BY <1>1 DEF Reset, RInv, IInv, TypeOK
<1> QED
  BY <1>2, RInvCall DEF Reset, Call

LEMMA RInvExecute ==
  ASSUME RInv, NEW block \in Requests(kind), Execute(block)
  PROVE  Continues' /\ CommandsFit'
BY DEF Execute, RInv, Continues, CommandsFit, Given, instance

LEMMA RInvNext == RInv /\ [Next]_vars => RInv'
<1> SUFFICES ASSUME RInv, [Next]_vars PROVE Continues' /\ CommandsFit'
  BY NextInv DEF RInv
<1>0. IInv /\ IInv' /\ CommandsFit
  BY NextInv DEF RInv
<1>1. CASE Refusing
  BY <1>0, <1>1, RefusingStep, ReturningRInv
<1>2. CASE Committing
  BY <1>0, <1>2, CommittingStep, ReturningRInv
<1>3. CASE Create \/ UseCreated \/ PfbResetAccepted
  BY <1>3, RInvCreate, RInvUseCreated, RInvPfbResetAccepted
<1>4. CASE Reset
  BY <1>4, RInvReset
<1>5. ASSUME NEW block \in Requests(kind), Execute(block) PROVE Continues' /\ CommandsFit'
  BY <1>5, RInvExecute
<1>6. ASSUME NEW id \in Ids, NEW value \in GivenValues(id), ParamSet(id, value)
      PROVE  Continues' /\ CommandsFit'
  BY <1>6, RInvParamSet
<1>7. ASSUME NEW first \in Ids, NEW second \in Ids,
             NEW first_value \in GivenValues(first), NEW second_value \in GivenValues(second),
             ParamSetMany(first, first_value, second, second_value)
      PROVE  Continues' /\ CommandsFit'
  BY <1>7, RInvParamSetMany
<1>8. ASSUME NEW source \in States \cup {NoState}, CopyState(source)
      PROVE  Continues' /\ CommandsFit'
  BY <1>8, RInvCall DEF CopyState, Call
<1>9. ASSUME NEW count \in BlockSizes, NEW data \in BOOLEAN, Pass(count, data)
      PROVE  Continues' /\ CommandsFit'
  BY <1>9, RInvCall DEF Pass, Call
<1>10. ASSUME NEW turns \in BOOLEAN, Rotate(turns) PROVE Continues' /\ CommandsFit'
  BY <1>10, RInvCall DEF Rotate, Call
<1>11. CASE UNCHANGED vars
  BY <1>11 DEF vars, instance, execution, RInv, Continues, CommandsFit, Restarted, Active, Given
<1> QED
  BY <1>1, <1>2, <1>3, <1>4, <1>5, <1>6, <1>7, <1>8, <1>9, <1>10, <1>11
  DEF Next, Executing, Refusing, Committing

-----------------------------------------------------------------------------
(* Every step is one of StreamingKernel's, or none.                        *)

(* An execution does what the parameters it found ask for, and takes the   *)
(* commands among them.                                                    *)
LEMMA ReturnConsumes ==
  ASSUME NEW result, Return(result)
  PROVE  /\ answer' = [call |-> Command, result |-> result, count |-> request.count]
         /\ Command = Promise!Requested /\ Command \in Promise!Executions
         /\ Promise!CommandsConsumed /\ entered' = entered /\ stage' = "idle"
<1>1. Command = Promise!Requested /\ Command \in Promise!Executions
  BY DEF Command, Given, Promise!Requested, Promise!Executions
<1> QED
  BY <1>1 DEF Return, Answer, Promise!CommandsConsumed

LEMMA RefusingRefines == ASSUME RInv, Refusing PROVE Promise!Refuse
<1>1. PICK result \in Failures : Refused(result)
  BY RefusingStep DEF RInv
<1>2. Return(result)
  BY <1>1 DEF Refused
<1>3. /\ stage # "idle" /\ stage' = "idle" /\ answer'.result = result /\ answer'.call = Command
      /\ entered' = entered /\ Command = Promise!Requested /\ Promise!CommandsConsumed
  BY <1>2, RefusingStep, ReturnConsumes DEF RInv
<1>4. streaming' = entered
  BY <1>1, RefusingStep DEF Refused, RInv, IInv, Creation, Untouched
<1>5. Command \in Promise!Executions
  BY <1>2, ReturnConsumes
<1> QED
  BY <1>3, <1>4, <1>5 DEF Promise!Refuse

LEMMA CommittingRefines ==
  ASSUME RInv, Committing
  PROVE  Promise!Process \/ Promise!Restart \/ Promise!Query
<1>1. /\ stage \in {"created", "processing"} /\ Commit(CommittedPosition)
      /\ CommittedPosition \in Nat /\ Command = "query" => stage = "created"
  BY CommittingStep
<1>2. Return("SUCCESS")
  BY <1>1 DEF Commit
<1>3. /\ stage # "idle" /\ stage' = "idle"
      /\ answer' = [call |-> Command, result |-> "SUCCESS", count |-> request.count]
      /\ Command = Promise!Requested /\ Promise!CommandsConsumed
  BY <1>1, <1>2, ReturnConsumes
<1>4. Active \in States /\ Active.position \in Nat /\ request.count \in Nat
  BY <1>1, ActiveInRange, TypesOfInstance DEF RInv, IInv, States, Positions
<1>5. /\ entered # NoState => entered.config = Active.config
      /\ Active.position = IF Restarted THEN 0 ELSE entered.position
  BY <1>1 DEF RInv, Continues
<1>6. Active.config = Promise!Config
  BY <1>1, <1>3, <1>5, ActiveInRange DEF RInv, Promise!Config
<1>7. streaming' = [config |-> Active.config, position |-> CommittedPosition]
  BY <1>1, <1>4 DEF Commit, States
<1>8. streaming' # NoState
  <2>1. CommittedPosition \in Positions
    BY <1>1, <1>4, ActiveInRange, TypesOfInstance, ConstantsAssumption
    DEF CommittedPosition, Positions, RInv, IInv, States
  <2> QED
    BY <1>4, <1>7, <2>1, NoStateAssumption DEF States
<1>9. Promise!Executed(Command, CommittedPosition)
  BY <1>3, <1>6, <1>7, <1>8 DEF Promise!Executed, Promise!Answered, Promise!At
<1>10. Command \in {"process", "restart", "query"} /\ answer'.count = request.count
  BY <1>3 DEF Command
<1>11. CASE Command = "restart"
  BY <1>9, <1>10, <1>11 DEF CommittedPosition, Promise!Restart
<1>12. CASE Command = "query"
  <2>1. CommittedPosition = Promise!Consumed
    BY <1>1, <1>3, <1>5, <1>12 DEF CommittedPosition, Promise!Consumed, Restarted
  <2> QED
    BY <1>9, <1>12, <2>1 DEF Promise!Query
<1>13. CASE Command = "process"
  <2>1. stage = "processing" => ~Given("reset")
    BY <1>13 DEF Command, RInv, CommandsFit
  <2>2. CommittedPosition = Promise!Consumed + request.count
    BY <1>3, <1>5, <1>13, <2>1 DEF CommittedPosition, Promise!Consumed, Restarted
  <2> QED
    BY <1>9, <1>10, <1>13, <2>2 DEF Promise!Process
<1> QED
  BY <1>10, <1>11, <1>12, <1>13

LEMMA InternalRefines ==
  ASSUME RInv,
         Create \/ UseCreated \/ PfbResetAccepted
           \/ (\E block \in Requests(kind) : Execute(block)) \/ UNCHANGED vars
  PROVE  UNCHANGED Promise!vars
<1>1. CASE Create
  BY <1>1 DEF Create, ArgumentsAccepted, Promise!vars
<1>2. CASE UseCreated
  BY <1>2 DEF UseCreated, ArgumentsAccepted, instance, Promise!vars
<1>3. CASE PfbResetAccepted
  BY <1>3 DEF PfbResetAccepted, PfbBlock, PfbArguments, Promise!vars
<1>4. ASSUME NEW block \in Requests(kind), Execute(block) PROVE UNCHANGED Promise!vars
  BY <1>4 DEF Execute, instance, Promise!vars
<1>5. CASE UNCHANGED vars
  BY <1>5 DEF vars, instance, execution, Promise!vars
<1> QED
  BY <1>1, <1>2, <1>3, <1>4, <1>5

(* Calls that are one step.                                                *)
LEMMA FailedCallRefines ==
  ASSUME NEW operation, NEW result \in Failures, NEW count, Call(operation, result, count),
         operation \notin {"process", "restart", "query"},
         UNCHANGED execution, UNCHANGED streaming, UNCHANGED params
  PROVE  Promise!Refuse
BY DEF Call, Answer, execution, Promise!Refuse, Promise!Executions

(* One parameter or a list of them: set_parameter accepts none of those a  *)
(* live state was created from, and nothing is set that is refused.        *)
LEMMA ConfigureRefines ==
  ASSUME RInv, NEW result \in Results, Call("configure", result, 0),
         UNCHANGED execution, UNCHANGED streaming,
         result # "SUCCESS" => UNCHANGED params,
         result = "SUCCESS" => /\ DOMAIN params' = Ids
                               /\ Created => \A id \in CreationIds : params'[id] = params[id]
  PROVE  Promise!Refuse \/ Promise!Configure
<1>1. CASE result \in Failures
  <2>1. result # "SUCCESS"
    BY <1>1 DEF Failures
  <2> QED
    BY <1>1, <2>1, FailedCallRefines
<1>2. CASE result = "SUCCESS"
  <2>1. DOMAIN params' = DOMAIN params
    BY <1>2 DEF RInv, IInv, TypeOK
  <2> QED
    BY <1>2, <2>1 DEF Call, Answer, execution, Created, Promise!Configure, Promise!Answered
<1> QED
  BY <1>1, <1>2 DEF Results

LEMMA ParamSetRefines ==
  ASSUME RInv, NEW id \in Ids, NEW value \in GivenValues(id), ParamSet(id, value)
  PROVE  Promise!Refuse \/ Promise!Configure
<1> DEFINE result == SetResult(id, value)
<1>1. /\ Call("configure", result, 0) /\ UNCHANGED execution /\ UNCHANGED streaming
      /\ params' = IF result = "SUCCESS" THEN [params EXCEPT ![id] = value] ELSE params
  BY DEF ParamSet
<1>2. result \in Results /\ (result = "SUCCESS" => ~(Created /\ id \in CreationIds))
  BY SetResultType
<1>3. result = "SUCCESS" => /\ DOMAIN params' = Ids
                            /\ Created => \A other \in CreationIds :
                                             params'[other] = params[other]
  BY <1>1, <1>2 DEF RInv, IInv, TypeOK, Ids
<1> HIDE DEF result
<1> QED
  BY <1>1, <1>2, <1>3, ConfigureRefines

LEMMA ParamSetManyRefines ==
  ASSUME RInv, NEW first \in Ids, NEW second \in Ids,
         NEW first_value \in GivenValues(first), NEW second_value \in GivenValues(second),
         ParamSetMany(first, first_value, second, second_value)
  PROVE  Promise!Refuse \/ Promise!Configure
<1> DEFINE one == SetResult(first, first_value)
           two == SetResult(second, second_value)
           result == IF one # "SUCCESS" THEN one ELSE two
<1>1. /\ Call("configure", result, 0) /\ UNCHANGED execution /\ UNCHANGED streaming
      /\ params' = IF result = "SUCCESS"
                   THEN [params EXCEPT ![first] = first_value, ![second] = second_value]
                   ELSE params
  BY DEF ParamSetMany
<1>2. /\ one \in Results /\ (one = "SUCCESS" => ~(Created /\ first \in CreationIds))
      /\ two \in Results /\ (two = "SUCCESS" => ~(Created /\ second \in CreationIds))
  BY SetResultType
<1> HIDE DEF one, two
<1>3. result = "SUCCESS" => one = "SUCCESS" /\ two = "SUCCESS"
  OBVIOUS
<1>4. result = "SUCCESS" => /\ DOMAIN params' = Ids
                            /\ Created => \A other \in CreationIds :
                                             params'[other] = params[other]
  BY <1>1, <1>2, <1>3 DEF RInv, IInv, TypeOK, Ids
<1>5. result \in Results
  BY <1>2
<1> HIDE DEF result
<1> QED
  BY <1>1, <1>4, <1>5, ConfigureRefines

LEMMA ResetRefines == ASSUME RInv, Reset PROVE Promise!Refuse \/ Promise!Reset
<1>1. stage = "idle" /\ stage' = "idle" /\ UNCHANGED execution
  BY DEF Reset, Call, execution
<1>2. CASE ~Created
  BY <1>1, <1>2, FailedCallRefines DEF Reset, Failures
<1>3. CASE Created
  <2>1. streaming \in States /\ streaming # NoState
    BY <1>3, TypesOfInstance DEF Created, RInv, IInv
  <2>2. streaming' = [config |-> streaming.config, position |-> 0]
    BY <1>3, <2>1 DEF Reset, States
  <2>3. /\ answer'.call = "reset" /\ answer'.result = "SUCCESS"
        /\ params' = [params EXCEPT !["reset"] = "off"]
    BY <1>3 DEF Reset, Call, Answer
  <2> QED
    BY <1>1, <2>1, <2>2, <2>3 DEF Promise!Reset, Promise!Answered, Promise!At
<1> QED
  BY <1>2, <1>3

LEMMA CopyRefines ==
  ASSUME RInv, NEW source \in States \cup {NoState}, CopyState(source)
  PROVE  Promise!Refuse \/ \E position \in Positions : Promise!Copy(position)
<1>1. stage = "idle" /\ stage' = "idle" /\ UNCHANGED execution /\ UNCHANGED params
  BY DEF CopyState, Call, execution
<1>2. CASE CopyStateResult(source) \in Failures
  BY <1>1, <1>2, FailedCallRefines DEF CopyState, Failures
<1>3. CASE CopyStateResult(source) = "SUCCESS"
  <2>1. /\ streaming # NoState /\ source \in States
        /\ source.config = streaming.config
    BY <1>3 DEF CopyStateResult, Created
  <2>2. source = [config |-> streaming.config, position |-> source.position]
        /\ source.position \in Positions
    BY <2>1 DEF States
  <2>3. streaming' = source /\ answer'.call = "copy" /\ answer'.result = "SUCCESS"
    BY <1>3 DEF CopyState, Call, Answer
  <2>4. Promise!Copy(source.position)
    BY <1>1, <2>1, <2>2, <2>3 DEF Promise!Copy, Promise!Answered, Promise!At
  <2> QED
    BY <2>2, <2>4
<1> QED
  BY <1>2, <1>3 DEF CopyStateResult, Failures

LEMMA PassRefines ==
  ASSUME RInv, NEW count \in BlockSizes, NEW data \in BOOLEAN, Pass(count, data)
  PROVE  Promise!Refuse \/ Promise!Pass
<1> DEFINE result == PassResult(count, data)
<1>1. /\ stage = "idle" /\ stage' = "idle" /\ UNCHANGED execution /\ UNCHANGED params
      /\ Call("pass", result, count)
  BY DEF Pass, Call, execution
<1>2. streaming' = IF result = "SUCCESS" THEN [streaming EXCEPT !.position = @ + count]
                   ELSE streaming
  BY DEF Pass
<1>3. CASE result \in Failures
  BY <1>1, <1>2, <1>3, FailedCallRefines DEF Failures
<1>4. CASE result = "SUCCESS"
  <2>1. Created /\ streaming \in States /\ streaming # NoState
    BY <1>4, TypesOfInstance DEF PassResult, Created, RInv, IInv
  <2>2. streaming' = [config |-> streaming.config, position |-> streaming.position + count]
    BY <1>2, <1>4, <2>1 DEF States
  <2>3. answer'.call = "pass" /\ answer'.result = "SUCCESS" /\ answer'.count = count
    BY <1>1, <1>4 DEF Call, Answer
  <2> QED
    BY <1>1, <2>1, <2>2, <2>3
    DEF Promise!Pass, Promise!Answered, Promise!At, Promise!Consumed
<1> QED
  BY <1>3, <1>4 DEF PassResult, Failures

LEMMA RotateRefines ==
  ASSUME RInv, NEW turns \in BOOLEAN, Rotate(turns)
  PROVE  Promise!Refuse \/ Promise!Rotate
<1> DEFINE result == RotateResult(turns)
<1>1. /\ stage = "idle" /\ stage' = "idle" /\ UNCHANGED <<streaming, params>>
      /\ Call("rotate", result, 0) /\ UNCHANGED execution
  BY DEF Rotate, Call, execution
<1>2. CASE result \in Failures
  BY <1>1, <1>2, FailedCallRefines
<1>3. CASE result = "SUCCESS"
  <2>1. streaming # NoState
    BY <1>3 DEF RotateResult, Created
  <2> QED
    BY <1>1, <1>3, <2>1 DEF Call, Answer, Promise!Rotate, Promise!Answered
<1> QED
  BY <1>2, <1>3 DEF RotateResult, Failures

LEMMA StepRefines == ASSUME RInv, [Next]_vars PROVE [Promise!Next]_(Promise!vars)
<1>1. CASE Refusing
  BY <1>1, RefusingRefines DEF Promise!Next
<1>2. CASE Committing
  BY <1>2, CommittingRefines DEF Promise!Next
<1>3. CASE Create \/ UseCreated \/ PfbResetAccepted
             \/ (\E block \in Requests(kind) : Execute(block)) \/ UNCHANGED vars
  BY <1>3, InternalRefines
<1>4. CASE Reset
  BY <1>4, ResetRefines DEF Promise!Next
<1>5. ASSUME NEW id \in Ids, NEW value \in GivenValues(id), ParamSet(id, value)
      PROVE  Promise!Refuse \/ Promise!Configure
  BY <1>5, ParamSetRefines
<1>6. ASSUME NEW first \in Ids, NEW second \in Ids,
             NEW first_value \in GivenValues(first), NEW second_value \in GivenValues(second),
             ParamSetMany(first, first_value, second, second_value)
      PROVE  Promise!Refuse \/ Promise!Configure
  BY <1>6, ParamSetManyRefines
<1>7. ASSUME NEW source \in States \cup {NoState}, CopyState(source)
      PROVE  Promise!Refuse \/ \E position \in Positions : Promise!Copy(position)
  BY <1>7, CopyRefines
<1>8. ASSUME NEW count \in BlockSizes, NEW data \in BOOLEAN, Pass(count, data)
      PROVE  Promise!Refuse \/ Promise!Pass
  BY <1>8, PassRefines
<1>9. ASSUME NEW turns \in BOOLEAN, Rotate(turns)
      PROVE  Promise!Refuse \/ Promise!Rotate
  BY <1>9, RotateRefines
<1> QED
  BY <1>1, <1>2, <1>3, <1>4, <1>5, <1>6, <1>7, <1>8, <1>9
  DEF Next, Executing, Refusing, Committing, Promise!Next

(* A kernel handle implements the stream its documentation describes: the  *)
(* steps of uni_simd_kernel_execute, however they end, amount to one whole *)
(* call or to none.                                                        *)
THEOREM Implements == Spec => IsStreamingKernel
<1>1. Init => RInv /\ Promise!Init
  <2>1. Init => Promise!Requested = "process"
    BY DEF Init, Defaults, Ids, CreationIds, CommandIds, Promise!Requested
  <2> QED
    BY <2>1, RInvInit DEF Init, Promise!Init
<1>2. RInv /\ [Next]_vars => RInv' /\ [Promise!Next]_(Promise!vars)
  BY RInvNext, StepRefines
<1> QED
  BY <1>1, <1>2, PTL DEF Spec, IsStreamingKernel, Promise!Spec

-----------------------------------------------------------------------------
(* What a query foretells.                                                 *)

LEMMA Division ==
  ASSUME NEW m \in Nat
  PROVE  /\ m \div Decimation \in Nat /\ m % Decimation \in 0 .. Decimation - 1
         /\ m = (m \div Decimation) * Decimation + (m % Decimation)
BY ConstantsAssumption

LEMMA QuotientUnique ==
  ASSUME NEW q \in Nat, NEW r \in 0 .. Decimation - 1
  PROVE  (q * Decimation + r) \div Decimation = q
<1> DEFINE d == Decimation
           m == q * d + r
           p == m \div d
           s == m % d
<1>1. d \in Nat \ {0} /\ r \in 0 .. d - 1
  BY ConstantsAssumption
<1>2. m \in Nat
  BY <1>1
<1>3. p \in Nat /\ s \in 0 .. d - 1 /\ m = p * d + s
  BY <1>2, Division
<1> HIDE DEF d, p, s
<1>4. (p - q) * d = r - s /\ (q - p) * d = s - r
  <2>1. (p - q) * d = p * d - q * d /\ (q - p) * d = q * d - p * d
    BY <1>1, <1>3
  <2>2. p * d \in Int /\ q * d \in Int
    BY <1>1, <1>3
  <2> QED
    BY <1>1, <1>3, <2>1, <2>2
<1>5. \A e \in Nat \ {0} : e * d >= d
  BY <1>1
<1>6. p - q \notin Nat \ {0} /\ q - p \notin Nat \ {0}
  <2> HIDE DEF m
  <2> QED
    BY <1>1, <1>3, <1>4, <1>5
<1>7. p = q
  BY <1>3, <1>6
<1> QED
  BY <1>7 DEF p, d

(* The samples behind one hop and up to the next have as many hops before  *)
(* them.                                                                   *)
LEMMA HopsInside ==
  ASSUME NEW h \in Nat, NEW s \in 1 .. Decimation, NEW n \in Nat,
         n + Decimation = h * Decimation + s
  PROVE  HopsBefore(n) = h
<1>1. Decimation \in Nat \ {0}
  BY ConstantsAssumption
<1>2. h * Decimation \in Int
  BY <1>1
<1>3. n + Decimation - 1 = h * Decimation + (s - 1) /\ s - 1 \in 0 .. Decimation - 1
  BY <1>1, <1>2
<1>4. (h * Decimation + (s - 1)) \div Decimation = h
  BY <1>3, QuotientUnique
<1> QED
  BY <1>3, <1>4 DEF HopsBefore

(* The hops of a block are those counted from the phase it starts in.      *)
LEMMA HopsAreCounted ==
  ASSUME NEW position \in Nat, NEW count \in Nat
  PROVE  Hops(position, count) = OutputCount(position % Decimation, count)
<1> DEFINE d == Decimation
           q == position \div d
           r == position % d
           first == IF r = 0 THEN 0 ELSE d - r
           h == IF r = 0 THEN q ELSE q + 1
           s == IF r = 0 THEN d ELSE r
<1>1. d \in Nat \ {0} /\ q \in Nat /\ r \in 0 .. d - 1 /\ position = q * d + r
  BY ConstantsAssumption, Division
<1>2. OutputCount(r, count) =
        IF count = 0 \/ first >= count THEN 0 ELSE 1 + (count - 1 - first) \div d
  BY DEF OutputCount
<1> HIDE DEF q, r
<1>3. h \in Nat /\ s \in 1 .. d /\ first \in Nat /\ first = d - s
  BY <1>1
<1>4. position + d = h * d + s
  <2>1. q * d \in Int /\ (q + 1) * d = q * d + d
    BY <1>1
  <2> QED
    BY <1>1, <2>1
<1>5. h * d \in Int
  BY <1>1, <1>3
<1> HIDE DEF first, h, s
<1>6. HopsBefore(position) = h
  BY <1>3, <1>4, HopsInside DEF d
<1>7. CASE count = 0 \/ first >= count
  <2>1. s + count \in 1 .. d /\ (position + count) + d = h * d + (s + count)
    BY <1>1, <1>3, <1>4, <1>5, <1>7
  <2>2. position + count \in Nat
    OBVIOUS
  <2>3. HopsBefore(position + count) = h
    <3> DEFINE n == position + count
               t == s + count
    <3>1. n \in Nat /\ t \in 1 .. d /\ n + d = h * d + t
      BY <2>1, <2>2
    <3> HIDE DEF n, t
    <3>2. HopsBefore(n) = h
      BY <1>3, <3>1, HopsInside DEF d
    <3> QED
      BY <3>2 DEF n
  <2> QED
    BY <1>2, <1>3, <1>6, <1>7, <2>3 DEF Hops, r, d
<1>8. CASE ~(count = 0 \/ first >= count)
  <2> DEFINE m == count - 1 - first
             a == m \div d
             b == m % d
  <2>1. m \in Nat /\ count = first + m + 1
    BY <1>3, <1>8
  <2> HIDE DEF m
  <2>2. a \in Nat /\ b \in 0 .. d - 1 /\ m = a * d + b
    BY <2>1, Division DEF d
  <2> HIDE DEF a, b
  <2>3. (h + 1 + a) * d = h * d + d + a * d /\ a * d \in Int
    BY <1>1, <1>3, <2>2
  <2>4. h + 1 + a \in Nat /\ b + 1 \in 1 .. d
    BY <1>1, <1>3, <2>2
  <2>5. (position + count) + d = (h + 1 + a) * d + (b + 1)
    BY <1>1, <1>3, <1>4, <1>5, <2>1, <2>2, <2>3
  <2>6. HopsBefore(position + count) = h + 1 + a
    <3> DEFINE n == position + count
               k == h + 1 + a
               t == b + 1
    <3>1. n \in Nat /\ k \in Nat /\ t \in 1 .. d /\ n + d = k * d + t
      BY <2>4, <2>5
    <3> HIDE DEF n, k, t
    <3>2. HopsBefore(n) = k
      BY <3>1, HopsInside DEF d
    <3> QED
      BY <3>2 DEF n, k
  <2>7. Hops(position, count) = 1 + a
    BY <1>3, <1>6, <2>2, <2>6 DEF Hops
  <2>8. OutputCount(r, count) = 1 + (m \div d)
    BY <1>2, <1>8 DEF m
  <2> QED
    BY <2>7, <2>8 DEF a, r, d
<1> QED
  BY <1>7, <1>8

(* A forecast that stands is what the state would deliver, except while a  *)
(* block that resets is processed, which will end it.                      *)
Foretells ==
  foretold.hops >= 0 =>
    /\ kind = Pfb
    /\ \/ stage = "processing" /\ Given("reset")
       \/ /\ Created
          /\ foretold.hops = OutputCount(streaming.position % Decimation, foretold.count)

QInv == RInv /\ Foretells

LEMMA NoForecastStands == foretold' = NoForecast => Foretells'
BY DEF NoForecast, Foretells

(* Calls that leave the state leave the forecast, others that succeed end  *)
(* it.                                                                     *)
LEMMA ForecastStands ==
  ASSUME Foretells, UNCHANGED <<kind, streaming, foretold>>, stage # "processing"
  PROVE  Foretells'
BY DEF Foretells, Created

LEMMA RefusedForetells ==
  ASSUME QInv, Refusing
  PROVE  Foretells'
<1>1. PICK result \in Failures : Refused(result)
  BY RefusingStep DEF QInv, RInv
<1>2. stage = "processing" => ~Given("reset")
  BY RefusingStep DEF QInv, RInv
<1>3. UNCHANGED <<kind, foretold>>
  BY <1>1 DEF Refused, Return
<1>4. kind = Pfb => UNCHANGED streaming
  BY <1>1 DEF Refused, QInv, RInv, IInv, Creation
<1> QED
  BY <1>2, <1>3, <1>4 DEF QInv, Foretells, Created

LEMMA QueryPromises == ASSUME QInv, PfbQuery PROVE Foretells'
<1>1. stage = "created" /\ kind = Pfb /\ ~Given("reset")
  BY DEF PfbQuery, PfbArguments, CommandsConflict
<1>2. foretold' = [count |-> request.count, hops |-> Expected]
  BY DEF PfbQuery
<1>3. Expected = OutputCount(Active.position % Decimation, request.count)
  BY <1>1 DEF Expected
<1>4. streaming' = [Active EXCEPT !.position = Active.position] /\ kind' = kind
  BY DEF PfbQuery, Commit, Return
<1>5. Active \in States
  BY <1>1, ActiveInRange DEF QInv, RInv
<1>6. streaming' = Active
  BY <1>4, <1>5 DEF States
<1>7. Created'
  BY <1>5, <1>6, NoStateAssumption DEF Created
<1> QED
  BY <1>1, <1>2, <1>3, <1>4, <1>6, <1>7 DEF Foretells

LEMMA CommittedForetells == ASSUME QInv, Committing PROVE Foretells'
<1>1. CASE PfbQuery
  BY <1>1, QueryPromises
<1>2. CASE PfbWithoutInput \/ PfbProcess
  BY <1>2, NoForecastStands DEF PfbWithoutInput, PfbProcess
<1>3. CASE BlockProcess
  <2>1. kind # Pfb /\ UNCHANGED <<kind, foretold>>
    BY <1>3 DEF BlockProcess, Commit, Return
  <2> QED
    BY <2>1 DEF QInv, Foretells
<1> QED
  BY <1>1, <1>2, <1>3 DEF Committing

LEMMA QInvNext == QInv /\ [Next]_vars => QInv'
<1> SUFFICES ASSUME QInv, [Next]_vars PROVE Foretells'
  BY RInvNext DEF QInv
<1>1. CASE Refusing
  BY <1>1, RefusedForetells
<1>2. CASE Committing
  BY <1>2, CommittedForetells
<1>3. CASE Create
  <2>1. ~Created /\ stage # "processing" /\ UNCHANGED <<kind, foretold>>
    BY <1>3 DEF Create, ArgumentsAccepted
  <2> QED
    BY <2>1 DEF QInv, Foretells
<1>4. CASE UseCreated
  BY <1>4, ForecastStands DEF UseCreated, ArgumentsAccepted, QInv, instance
<1>5. CASE PfbResetAccepted
  <2>1. /\ stage = "created" /\ stage' = "processing"
        /\ UNCHANGED <<kind, params, foretold>>
    BY <1>5 DEF PfbResetAccepted, PfbBlock, PfbArguments
  <2>2. CASE Given("reset")
    BY <2>1, <2>2 DEF Foretells, Given, QInv
  <2>3. CASE ~Given("reset")
    <3>1. UNCHANGED streaming
      BY <1>5, <2>3 DEF PfbResetAccepted
    <3> QED
      BY <2>1, <3>1, ForecastStands DEF QInv
  <2> QED
    BY <2>2, <2>3
<1>6. ASSUME NEW block \in Requests(kind), Execute(block) PROVE Foretells'
  BY <1>6, ForecastStands DEF Execute, QInv, instance
<1>7. CASE Reset
  <2>1. CASE Created
    BY <1>7, <2>1, NoForecastStands DEF Reset, Call, Answer, ForgetForecast
  <2>2. CASE ~Created
    <3>1. UNCHANGED <<kind, streaming, foretold>> /\ stage = "idle"
      BY <1>7, <2>2 DEF Reset, Call, Answer, ForgetForecast
    <3> QED
      BY <3>1, ForecastStands DEF QInv
  <2> QED
    BY <2>1, <2>2
<1>8. ASSUME NEW id \in Ids, NEW value \in GivenValues(id), ParamSet(id, value)
      PROVE  Foretells'
  BY <1>8, ForecastStands DEF ParamSet, Call, QInv
<1>9. ASSUME NEW first \in Ids, NEW second \in Ids,
              NEW first_value \in GivenValues(first), NEW second_value \in GivenValues(second),
              ParamSetMany(first, first_value, second, second_value)
       PROVE  Foretells'
  BY <1>9, ForecastStands DEF ParamSetMany, Call, QInv
<1>10. ASSUME NEW source \in States \cup {NoState}, CopyState(source) PROVE Foretells'
  <2>1. stage = "idle" /\ UNCHANGED kind
    BY <1>10 DEF CopyState, Call
  <2>2. CASE CopyStateResult(source) = "SUCCESS"
    BY <1>10, <2>2, NoForecastStands DEF CopyState, Call, Answer, ForgetForecast
  <2>3. CASE CopyStateResult(source) # "SUCCESS"
    <3>1. UNCHANGED <<streaming, foretold>>
      BY <1>10, <2>3 DEF CopyState, Call, Answer, ForgetForecast
    <3> QED
      BY <2>1, <3>1, ForecastStands DEF QInv
  <2> QED
    BY <2>2, <2>3
<1>11. ASSUME NEW count \in BlockSizes, NEW data \in BOOLEAN, Pass(count, data)
       PROVE  Foretells'
  <2>1. stage = "idle" /\ UNCHANGED kind
    BY <1>11 DEF Pass, Call
  <2>2. CASE PassResult(count, data) = "SUCCESS"
    BY <1>11, <2>2, NoForecastStands DEF Pass, Call, Answer, ForgetForecast
  <2>3. CASE PassResult(count, data) # "SUCCESS"
    <3>1. UNCHANGED <<streaming, foretold>>
      BY <1>11, <2>3 DEF Pass, Call, Answer, ForgetForecast
    <3> QED
      BY <2>1, <3>1, ForecastStands DEF QInv
  <2> QED
    BY <2>2, <2>3
<1>12. ASSUME NEW turns \in BOOLEAN, Rotate(turns) PROVE Foretells'
  BY <1>12, ForecastStands DEF Rotate, Call, QInv
<1>13. CASE UNCHANGED vars
  BY <1>13 DEF QInv, Foretells, Created, Given, vars, instance, execution
<1> QED
  BY <1>1, <1>2, <1>3, <1>4, <1>5, <1>6, <1>7, <1>8, <1>9, <1>10, <1>11, <1>12, <1>13
  DEF Next, Executing, Refusing, Committing

(* What an execution that ends reports, when a forecast stands for it.     *)
Foretold ==
  stage # "idle" /\ stage' = "idle" /\ answer'.call = "process"
    /\ request.input /\ request.count = foretold.count /\ foretold.hops >= 0 =>
  /\ answer'.result = "SUCCESS" /\ Given("output_count") => counted' = foretold.hops
  /\ request.capacity >= foretold.hops => answer'.result # "INVALID_SIZE"

LEMMA RefusedAsForetold == ASSUME QInv, Refusing PROVE Foretold
<1> SUFFICES ASSUME answer'.call = "process", request.count = foretold.count,
                    foretold.hops >= 0
             PROVE  /\ answer'.result # "SUCCESS"
                    /\ request.capacity >= foretold.hops => answer'.result # "INVALID_SIZE"
  BY DEF Foretold
<1>1. PICK result \in Failures : Refused(result)
  BY RefusingStep DEF QInv, RInv
<1>2. answer'.call = Command /\ answer'.result = result
  BY <1>1 DEF Refused, Return, Answer
<1>3. ~Given("reset") /\ ~Given("query")
  BY <1>2 DEF Command
<1>4. result # "SUCCESS"
  BY DEF Failures
<1>5. CASE PfbProcessRefused
  <2>1. stage = "processing" /\ BuffersRefused(PfbProcessHops)
    BY <1>5 DEF PfbProcessRefused
  <2>2. pending = NoState /\ Created
    BY <1>3 DEF QInv, Foretells, RInv, IInv, Creation, Created
  <2>3. PfbProcessHops = foretold.hops
    BY <1>3, <2>1, <2>2 DEF QInv, Foretells, PfbProcessHops, Active
  <2>4. answer'.result
          = IF request.capacity < PfbProcessHops THEN "INVALID_SIZE" ELSE "OVERLAPPING_BUFFERS"
    BY <1>5 DEF PfbProcessRefused, Refused, Return, Answer
  <2>5. request.capacity \in Nat /\ foretold.hops \in Int
    BY TypesOfInstance DEF QInv, RInv, IInv, TypeOK
  <2> QED
    BY <1>2, <1>4, <2>3, <2>4, <2>5
<1>6. CASE ~PfbProcessRefused
  <2>1. answer'.result # "INVALID_SIZE"
    <3>1. ~PfbResetRefused
      BY <1>3 DEF PfbResetRefused
    <3>2. CASE ContextRefused
      BY <3>2 DEF ContextRefused, Refused, Return, Answer
    <3>3. CASE ArgumentsRefused
      BY <3>3 DEF ArgumentsRefused, Refused, Return, Answer
    <3>4. CASE CreateRefused
      BY <3>4 DEF CreateRefused, Refused, Return, Answer
    <3>5. CASE PfbArgumentsRefused
      BY <3>5 DEF PfbArgumentsRefused, Refused, Return, Answer
    <3>6. CASE BlockRefused
      BY <3>6 DEF BlockRefused, Refused, Return, Answer
    <3> QED
      BY <1>6, <3>1, <3>2, <3>3, <3>4, <3>5, <3>6 DEF Refusing
  <2> QED
    BY <1>2, <1>4, <2>1
<1> QED
  BY <1>5, <1>6

LEMMA CommittedAsForetold == ASSUME QInv, Committing PROVE Foretold
<1> SUFFICES ASSUME answer'.call = "process", request.input, request.count = foretold.count,
                    foretold.hops >= 0
             PROVE  /\ answer'.result # "INVALID_SIZE"
                    /\ Given("output_count") => counted' = foretold.hops
  BY DEF Foretold
<1>1. answer'.call = Command /\ answer'.result = "SUCCESS"
  BY CommittingStep DEF QInv, Commit, Return, Answer
<1>2. ~Given("reset") /\ ~Given("query")
  BY <1>1 DEF Command
<1>3. kind = Pfb /\ Created /\ pending = NoState
  BY <1>2 DEF QInv, Foretells, RInv, IInv, Creation, Created
<1>4. PfbProcess
  BY <1>2, <1>3 DEF Committing, PfbQuery, PfbWithoutInput, BlockProcess
<1>5. foretold.hops = OutputCount(streaming.position % Decimation, request.count)
  BY <1>2 DEF QInv, Foretells
<1>6. streaming.position \in Nat /\ request.count \in Nat /\ Active = streaming
  <2>1. stage = "processing" /\ Active = streaming
    BY <1>3, <1>4 DEF PfbProcess, Active
  <2>2. Active.position \in Nat
    BY <2>1, ActiveInRange DEF QInv, RInv
  <2>3. request.count \in Nat
    BY TypesOfInstance, ConstantsAssumption DEF QInv, RInv, IInv, Positions
  <2> QED
    BY <2>1, <2>2, <2>3
<1>7. Hops(streaming.position, request.count)
        = OutputCount(streaming.position % Decimation, request.count)
  BY <1>6, HopsAreCounted
<1>8. Given("output_count") => counted' = Hops(Active.position, request.count)
  BY <1>4 DEF PfbProcess, Count
<1> QED
  BY <1>1, <1>5, <1>6, <1>7, <1>8

LEMMA StepAsForetold == ASSUME QInv, [Next]_vars PROVE Foretold
<1>1. CASE Refusing
  BY <1>1, RefusedAsForetold
<1>2. CASE Committing
  BY <1>2, CommittedAsForetold
<1>3. CASE Create \/ UseCreated \/ PfbResetAccepted
  BY <1>3 DEF Create, UseCreated, PfbResetAccepted, Foretold
<1>4. CASE stage = "idle" \/ stage' # "idle"
  BY <1>4 DEF Foretold
<1>5. ASSUME NEW block \in Requests(kind), Execute(block) PROVE stage = "idle"
  BY <1>5 DEF Execute
<1>6. CASE Reset \/ (\E source \in States \cup {NoState} : CopyState(source))
  BY <1>4, <1>6 DEF Reset, CopyState, Call
<1>7. CASE \/ \E id \in Ids : \E value \in GivenValues(id) : ParamSet(id, value)
           \/ \E first, second \in Ids :
                \E first_value \in GivenValues(first), second_value \in GivenValues(second) :
                  ParamSetMany(first, first_value, second, second_value)
  BY <1>4, <1>7 DEF ParamSet, ParamSetMany, Call
<1>8. CASE \/ \E count \in BlockSizes, data \in BOOLEAN : Pass(count, data)
           \/ \E turns \in BOOLEAN : Rotate(turns)
  BY <1>4, <1>8 DEF Pass, Rotate, Call
<1>9. CASE UNCHANGED vars
  BY <1>4, <1>9 DEF vars, execution
<1> QED
  BY <1>1, <1>2, <1>3, <1>4, <1>5, <1>6, <1>7, <1>8, <1>9 DEF Next, Executing, Refusing, Committing

(* What output_count said of a block is what processing it delivers, and   *)
(* buffers of that size are large enough, whatever failed calls, further   *)
(* queries and parameter changes come in between.                          *)
THEOREM QueriesForetell == Spec => QueryForetells
<1>1. Init => QInv
  BY RInvInit DEF QInv, Foretells, Init, NoForecast
<1>2. QInv /\ [Next]_vars => QInv' /\ [Foretold]_vars
  BY QInvNext, StepAsForetold
<1> QED
  BY <1>1, <1>2, PTL DEF Spec, QueryForetells, Foretold

-----------------------------------------------------------------------------
(* The runtime.                                                            *)

(* The inductive invariant.                                                *)

(* Critical sections are entered and left with the mutex.                  *)
MutexGuards == \A thread \in Threads :
  /\ thread_stage[thread] \in {"checking", "finishing"} <=> mutex = thread
  /\ thread_stage[thread] = "finishing" => op[thread] \in {"finalize", "create", "free"}

(* A thread that has taken a kernel out of its callers' hands, to free it  *)
(* or before it hands it out.                                              *)
Takes(thread) ==
  \/ op[thread] = "free" /\ thread_stage[thread] \in {"waiting", "checking"}
  \/ op[thread] = "create" /\ thread_stage[thread] = "finishing"

TakenIsLive == \A thread \in Threads : Takes(thread) => handle[thread] \in live \ owned

TakenOnce == \A first, second \in Threads :
  Takes(first) /\ Takes(second) /\ first # second => handle[first] # handle[second]

FinalizeSawNone == \A thread \in Threads :
  thread_stage[thread] = "finishing" /\ op[thread] = "finalize" => kernel_count = 0

RuntimeInv ==
  /\ RuntimeTypeOK /\ CountIsExact /\ KernelsNeedRuntime
  /\ MutexGuards /\ TakenIsLive /\ TakenOnce /\ FinalizeSawNone

-----------------------------------------------------------------------------
(* Only the thread that holds the mutex can be between two steps of an     *)
(* operation.                                                              *)
LEMMA BetweenIsHolder ==
  ASSUME MutexGuards, NEW operation
  PROVE  /\ mutex = None => ~Between(operation)
         /\ \A thread \in Threads :
              mutex = thread =>
                (Between(operation)
                   <=> thread_stage[thread] = "finishing" /\ op[thread] = operation)
BY RuntimeAssumption DEF MutexGuards, Between

LEMMA LiveIsFinite ==
  ASSUME RuntimeTypeOK
  PROVE  /\ IsFiniteSet(live) /\ Cardinality(live) \in Nat
         /\ Cardinality(live) = 0 <=> live = {}
         /\ \A kernel \in Kernels \ live : Cardinality(live \cup {kernel}) = Cardinality(live) + 1
         /\ \A kernel \in live : Cardinality(live \ {kernel}) = Cardinality(live) - 1
<1>1. IsFiniteSet(live)
  BY RuntimeAssumption, FS_Subset DEF RuntimeTypeOK
<1>2. Cardinality(live) \in Nat /\ (Cardinality(live) = 0 <=> live = {})
  BY <1>1, FS_CardinalityType, FS_EmptySet
<1> QED
  BY <1>1, <1>2, FS_AddElement, FS_RemoveElement

(* Steps that enter the API, read the flag or take the mutex.              *)
LEMMA ThreadCallStep ==
  ASSUME RuntimeInv, NEW thread \in Threads, NEW operation \in Ops, CallRuntime(thread, operation)
  PROVE  RuntimeInv'
<1> USE DEF RuntimeInv
<1>1. RuntimeTypeOK'
  BY DEF RuntimeTypeOK, CallRuntime, shared, Stages, Answers
<1>2. MutexGuards'
  BY DEF RuntimeTypeOK, CallRuntime, shared, MutexGuards
<1>3. TakenIsLive' /\ TakenOnce' /\ FinalizeSawNone'
  BY DEF RuntimeTypeOK, CallRuntime, shared, Takes, TakenIsLive, TakenOnce, FinalizeSawNone
<1>4. CountIsExact' /\ KernelsNeedRuntime'
  <2>1. \A o : Between(o)' <=> Between(o)
    BY DEF RuntimeTypeOK, CallRuntime, Between
  <2> QED
    BY <2>1 DEF CallRuntime, shared, CountIsExact, KernelsNeedRuntime
<1> QED
  BY <1>1, <1>2, <1>3, <1>4

LEMMA CallFreeStep ==
  ASSUME RuntimeInv, NEW thread \in Threads, NEW kernel \in Kernels, CallFree(thread, kernel)
  PROVE  RuntimeInv'
<1> USE DEF RuntimeInv
<1>1. RuntimeTypeOK'
  BY DEF RuntimeTypeOK, CallFree, shared, Stages, Ops, LockedOps, Answers
<1>2. MutexGuards'
  BY DEF RuntimeTypeOK, CallFree, shared, MutexGuards
<1>3. TakenIsLive' /\ TakenOnce' /\ FinalizeSawNone'
  BY DEF RuntimeTypeOK, CallFree, shared, Takes, TakenIsLive, TakenOnce, FinalizeSawNone
<1>4. CountIsExact' /\ KernelsNeedRuntime'
  <2>1. \A o : Between(o)' <=> Between(o)
    BY DEF RuntimeTypeOK, CallFree, Between
  <2> QED
    BY <2>1 DEF CallFree, shared, CountIsExact, KernelsNeedRuntime
<1> QED
  BY <1>1, <1>2, <1>3, <1>4

LEMMA NullHandleStep ==
  ASSUME RuntimeInv, NEW thread \in Threads, NullHandle(thread)
  PROVE  RuntimeInv'
<1> USE DEF RuntimeInv
<1>1. RuntimeTypeOK'
  BY DEF RuntimeTypeOK, NullHandle, ReturnTo, shared, Stages, Answers
<1>2. MutexGuards'
  BY DEF RuntimeTypeOK, NullHandle, ReturnTo, shared, MutexGuards
<1>3. TakenIsLive' /\ TakenOnce' /\ FinalizeSawNone'
  BY DEF RuntimeTypeOK, NullHandle, ReturnTo, shared, Takes, TakenIsLive, TakenOnce, FinalizeSawNone
<1>4. CountIsExact' /\ KernelsNeedRuntime'
  <2>1. \A o : Between(o)' <=> Between(o)
    BY DEF RuntimeTypeOK, NullHandle, ReturnTo, Between
  <2> QED
    BY <2>1 DEF NullHandle, shared, CountIsExact, KernelsNeedRuntime
<1> QED
  BY <1>1, <1>2, <1>3, <1>4

LEMMA LockFailsStep ==
  ASSUME RuntimeInv, NEW thread \in Threads, LockFails(thread)
  PROVE  RuntimeInv'
<1> USE DEF RuntimeInv
<1>1. RuntimeTypeOK'
  BY DEF RuntimeTypeOK, LockFails, ReturnTo, Failure, shared, Stages, Answers, Takes, TakenIsLive
<1>2. MutexGuards'
  BY DEF RuntimeTypeOK, LockFails, ReturnTo, shared, MutexGuards
<1>3. TakenIsLive' /\ TakenOnce' /\ FinalizeSawNone'
  BY DEF RuntimeTypeOK, LockFails, ReturnTo, shared, Takes, TakenIsLive, TakenOnce, FinalizeSawNone
<1>4. CountIsExact' /\ KernelsNeedRuntime'
  <2>1. \A o : Between(o)' <=> Between(o)
    BY DEF RuntimeTypeOK, LockFails, ReturnTo, Between
  <2> QED
    BY <2>1 DEF LockFails, shared, CountIsExact, KernelsNeedRuntime
<1> QED
  BY <1>1, <1>2, <1>3, <1>4

LEMMA LockStep == ASSUME RuntimeInv, NEW thread \in Threads, Lock(thread) PROVE RuntimeInv'
<1> USE DEF RuntimeInv
<1>1. RuntimeTypeOK'
  BY DEF RuntimeTypeOK, Lock, GoTo, Stages
<1>2. MutexGuards'
  BY RuntimeAssumption DEF RuntimeTypeOK, Lock, GoTo, MutexGuards
<1>3. TakenIsLive' /\ TakenOnce' /\ FinalizeSawNone'
  BY DEF RuntimeTypeOK, Lock, GoTo, Takes, TakenIsLive, TakenOnce, FinalizeSawNone
<1>4. CountIsExact' /\ KernelsNeedRuntime'
  <2>1. \A o : Between(o)' <=> Between(o)
    BY DEF RuntimeTypeOK, Lock, GoTo, Between
  <2> QED
    BY <2>1 DEF Lock, CountIsExact, KernelsNeedRuntime
<1> QED
  BY <1>1, <1>2, <1>3, <1>4

-----------------------------------------------------------------------------
(* Steps inside a critical section.                                        *)

(* The count only depends on what the holder of the mutex does.            *)
LEMMA CountOfHolder ==
  ASSUME MutexGuards, NEW thread \in Threads, mutex = thread
  PROVE  CountIsExact <=>
           kernel_count =
             Cardinality(live)
               - (IF thread_stage[thread] = "finishing" /\ op[thread] = "create" THEN 1 ELSE 0)
               + (IF thread_stage[thread] = "finishing" /\ op[thread] = "free" THEN 1 ELSE 0)
<1>1. \A o : Between(o) <=> thread_stage[thread] = "finishing" /\ op[thread] = o
  BY BetweenIsHolder
<1> QED
  BY <1>1 DEF CountIsExact

LEMMA InitializeStep ==
  ASSUME RuntimeInv, NEW thread \in Threads, Initialize(thread)
  PROVE  RuntimeInv'
<1> USE DEF RuntimeInv
<1>1. RuntimeTypeOK'
  BY DEF RuntimeTypeOK, Initialize, At, ReturnTo, Stages, Answers
<1>2. MutexGuards'
  BY RuntimeAssumption DEF RuntimeTypeOK, Initialize, At, ReturnTo, MutexGuards
<1>3. TakenIsLive' /\ TakenOnce' /\ FinalizeSawNone'
  BY DEF RuntimeTypeOK, Initialize, At, ReturnTo, Takes, TakenIsLive, TakenOnce, FinalizeSawNone
<1>4. CountIsExact' /\ KernelsNeedRuntime'
  <2>1. \A o : ~Between(o)'
    BY <1>2, RuntimeAssumption DEF Initialize, MutexGuards, Between
  <2>2. kernel_count' = Cardinality(live')
    BY CountOfHolder, LiveIsFinite DEF Initialize, At
  <2>3. Cardinality(live') \in Nat
    BY LiveIsFinite DEF Initialize
  <2> QED
    BY <2>1, <2>2, <2>3 DEF Initialize, CountIsExact, KernelsNeedRuntime
<1> QED
  BY <1>1, <1>2, <1>3, <1>4

(* While a thread is about to switch the runtime off there is no kernel.   *)
LEMMA FinalizeStoreSawNone ==
  ASSUME RuntimeInv, NEW thread \in Threads, FinalizeStore(thread)
  PROVE  live = {}
<1>1. kernel_count = Cardinality(live) /\ kernel_count = 0
  BY CountOfHolder, LiveIsFinite DEF RuntimeInv, FinalizeStore, At, FinalizeSawNone
<1> QED
  BY <1>1, LiveIsFinite DEF RuntimeInv

LEMMA FinalizeStoreStep ==
  ASSUME RuntimeInv, NEW thread \in Threads, FinalizeStore(thread)
  PROVE  RuntimeInv'
<1> USE DEF RuntimeInv
<1>1. RuntimeTypeOK'
  BY DEF RuntimeTypeOK, FinalizeStore, At, ReturnTo, Stages, Answers
<1>2. MutexGuards'
  BY RuntimeAssumption DEF RuntimeTypeOK, FinalizeStore, At, ReturnTo, MutexGuards
<1>3. TakenIsLive' /\ TakenOnce' /\ FinalizeSawNone'
  BY DEF RuntimeTypeOK, FinalizeStore, At, ReturnTo, Takes, TakenIsLive, TakenOnce, FinalizeSawNone
<1>4. CountIsExact' /\ KernelsNeedRuntime'
  <2>1. \A o : ~Between(o)'
    BY <1>2, RuntimeAssumption DEF FinalizeStore, MutexGuards, Between
  <2>2. kernel_count' = Cardinality(live')
    BY CountOfHolder, LiveIsFinite DEF FinalizeStore, At
  <2>3. Cardinality(live') \in Nat
    BY LiveIsFinite DEF FinalizeStore
  <2>4. live = {} /\ live' = live
    BY FinalizeStoreSawNone DEF FinalizeStore
  <2> QED
    BY <2>1, <2>2, <2>3, <2>4 DEF CountIsExact, KernelsNeedRuntime
<1> QED
  BY <1>1, <1>2, <1>3, <1>4

LEMMA RefuseCreateStep ==
  ASSUME RuntimeInv, NEW thread \in Threads, RefuseCreate(thread)
  PROVE  RuntimeInv'
<1> USE DEF RuntimeInv
<1>1. RuntimeTypeOK'
  BY DEF RuntimeTypeOK, RefuseCreate, At, ReturnTo, Stages, Answers
<1>2. MutexGuards'
  BY RuntimeAssumption DEF RuntimeTypeOK, RefuseCreate, At, ReturnTo, MutexGuards
<1>3. TakenIsLive' /\ TakenOnce' /\ FinalizeSawNone'
  BY DEF RuntimeTypeOK, RefuseCreate, At, ReturnTo, Takes, TakenIsLive, TakenOnce, FinalizeSawNone
<1>4. CountIsExact' /\ KernelsNeedRuntime'
  <2>1. \A o : ~Between(o)'
    BY <1>2, RuntimeAssumption DEF RefuseCreate, MutexGuards, Between
  <2>2. kernel_count' = Cardinality(live')
    BY CountOfHolder, LiveIsFinite DEF RefuseCreate, At
  <2>3. Cardinality(live') \in Nat
    BY LiveIsFinite DEF RefuseCreate
  <2> QED
    BY <2>1, <2>2, <2>3 DEF RefuseCreate, CountIsExact, KernelsNeedRuntime
<1> QED
  BY <1>1, <1>2, <1>3, <1>4

LEMMA CreateCountStep ==
  ASSUME RuntimeInv, NEW thread \in Threads, CreateCount(thread)
  PROVE  RuntimeInv'
<1> USE DEF RuntimeInv
<1>1. RuntimeTypeOK'
  BY DEF RuntimeTypeOK, CreateCount, At, ReturnTo, Stages, Answers, Takes, TakenIsLive
<1>2. MutexGuards'
  BY RuntimeAssumption DEF RuntimeTypeOK, CreateCount, At, ReturnTo, MutexGuards
<1>3. TakenIsLive' /\ TakenOnce' /\ FinalizeSawNone'
  <2>1. \A other \in Threads : Takes(other)' => other # thread /\ Takes(other)
    BY DEF RuntimeTypeOK, CreateCount, At, ReturnTo, Takes
  <2>2. TakenIsLive' /\ TakenOnce'
    BY <2>1 DEF RuntimeTypeOK, CreateCount, At, Takes, TakenIsLive, TakenOnce
  <2>3. FinalizeSawNone'
    BY RuntimeAssumption DEF RuntimeTypeOK, CreateCount, At, ReturnTo, MutexGuards, FinalizeSawNone
  <2> QED
    BY <2>2, <2>3
<1>4. CountIsExact' /\ KernelsNeedRuntime'
  <2>1. \A o : ~Between(o)'
    BY <1>2, RuntimeAssumption DEF CreateCount, MutexGuards, Between
  <2>2. kernel_count' = Cardinality(live')
    BY CountOfHolder, LiveIsFinite DEF CreateCount, At
  <2>3. Cardinality(live') \in Nat
    BY LiveIsFinite DEF CreateCount
  <2> QED
    BY <2>1, <2>2, <2>3 DEF CreateCount, CountIsExact, KernelsNeedRuntime
<1> QED
  BY <1>1, <1>2, <1>3, <1>4

LEMMA FreeCountStep ==
  ASSUME RuntimeInv, NEW thread \in Threads, FreeCount(thread)
  PROVE  RuntimeInv'
<1> USE DEF RuntimeInv
<1>1. RuntimeTypeOK'
  <2>1. kernel_count = Cardinality(live) + 1
    BY CountOfHolder, LiveIsFinite DEF FreeCount, At
  <2> QED
    BY <2>1, LiveIsFinite DEF RuntimeTypeOK, FreeCount, At, ReturnTo, Stages, Answers
<1>2. MutexGuards'
  BY RuntimeAssumption DEF RuntimeTypeOK, FreeCount, At, ReturnTo, MutexGuards
<1>3. TakenIsLive' /\ TakenOnce' /\ FinalizeSawNone'
  <2>1. \A other \in Threads : Takes(other)' => other # thread /\ Takes(other)
    BY DEF RuntimeTypeOK, FreeCount, At, ReturnTo, Takes
  <2>2. TakenIsLive' /\ TakenOnce'
    BY <2>1 DEF RuntimeTypeOK, FreeCount, At, Takes, TakenIsLive, TakenOnce
  <2>3. FinalizeSawNone'
    BY RuntimeAssumption DEF RuntimeTypeOK, FreeCount, At, ReturnTo, MutexGuards, FinalizeSawNone
  <2> QED
    BY <2>2, <2>3
<1>4. CountIsExact' /\ KernelsNeedRuntime'
  <2>1. \A o : ~Between(o)'
    BY <1>2, RuntimeAssumption DEF FreeCount, MutexGuards, Between
  <2>2. kernel_count' = Cardinality(live')
    BY CountOfHolder, LiveIsFinite DEF FreeCount, At
  <2>3. Cardinality(live') \in Nat
    BY LiveIsFinite DEF FreeCount
  <2> QED
    BY <2>1, <2>2, <2>3 DEF FreeCount, CountIsExact, KernelsNeedRuntime
<1> QED
  BY <1>1, <1>2, <1>3, <1>4

LEMMA FinalizeCheckStep ==
  ASSUME RuntimeInv, NEW thread \in Threads, FinalizeCheck(thread)
  PROVE  RuntimeInv'
<1> USE DEF RuntimeInv
<1>1. RuntimeTypeOK'
  BY DEF RuntimeTypeOK, FinalizeCheck, At, ReturnTo, GoTo, Stages, Answers
<1>2. MutexGuards'
  BY RuntimeAssumption DEF RuntimeTypeOK, FinalizeCheck, At, ReturnTo, GoTo, MutexGuards
<1>3. TakenIsLive' /\ TakenOnce' /\ FinalizeSawNone'
  BY DEF RuntimeTypeOK, FinalizeCheck, At, ReturnTo, GoTo, Takes, TakenIsLive, TakenOnce,
          FinalizeSawNone
<1>4. CountIsExact' /\ KernelsNeedRuntime'
  <2>1. \A o \in {"create", "free"} : ~Between(o)'
    BY <1>2, RuntimeAssumption
       DEF RuntimeTypeOK, FinalizeCheck, At, ReturnTo, GoTo, MutexGuards, Between
  <2>2. kernel_count' = Cardinality(live')
    BY CountOfHolder, LiveIsFinite DEF FinalizeCheck, At
  <2>3. Cardinality(live') \in Nat
    BY LiveIsFinite DEF FinalizeCheck
  <2> QED
    BY <2>1, <2>2, <2>3 DEF FinalizeCheck, CountIsExact, KernelsNeedRuntime
<1> QED
  BY <1>1, <1>2, <1>3, <1>4

LEMMA CreateAllocateStep ==
  ASSUME RuntimeInv, NEW thread \in Threads, NEW kernel \in Kernels, CreateAllocate(thread, kernel)
  PROVE  RuntimeInv'
<1> USE DEF RuntimeInv
<1>1. RuntimeTypeOK'
  BY DEF RuntimeTypeOK, CreateAllocate, At, GoTo, Stages, Answers
<1>2. MutexGuards'
  BY RuntimeAssumption DEF RuntimeTypeOK, CreateAllocate, At, GoTo, MutexGuards
<1>3. TakenIsLive' /\ TakenOnce' /\ FinalizeSawNone'
  BY DEF RuntimeTypeOK, CreateAllocate, At, GoTo, MutexGuards, Takes, TakenIsLive, TakenOnce,
          FinalizeSawNone
<1>4. CountIsExact' /\ KernelsNeedRuntime'
  <2>1. Between("create")' /\ ~Between("free")'
    BY <1>2, RuntimeAssumption DEF RuntimeTypeOK, CreateAllocate, At, GoTo, MutexGuards, Between
  <2>2. kernel_count = Cardinality(live)
    BY CountOfHolder, LiveIsFinite DEF CreateAllocate, At
  <2>3. Cardinality(live') = Cardinality(live) + 1
    BY LiveIsFinite DEF CreateAllocate
  <2> QED
    BY <2>1, <2>2, <2>3, LiveIsFinite DEF CreateAllocate, CountIsExact, KernelsNeedRuntime
<1> QED
  BY <1>1, <1>2, <1>3, <1>4

LEMMA FreeDeleteStep ==
  ASSUME RuntimeInv, NEW thread \in Threads, FreeDelete(thread)
  PROVE  RuntimeInv'
<1> USE DEF RuntimeInv
<1>1. RuntimeTypeOK'
  <2>1. owned \subseteq live \ {handle[thread]}
    BY DEF RuntimeTypeOK, FreeDelete, At, Takes, TakenIsLive
  <2> QED
    BY <2>1 DEF RuntimeTypeOK, FreeDelete, At, GoTo, Stages, Answers
<1>2. MutexGuards'
  BY RuntimeAssumption DEF RuntimeTypeOK, FreeDelete, At, GoTo, MutexGuards
<1>3. TakenIsLive' /\ TakenOnce' /\ FinalizeSawNone'
  BY DEF RuntimeTypeOK, FreeDelete, At, GoTo, Takes, TakenIsLive, TakenOnce, FinalizeSawNone
<1>4. CountIsExact' /\ KernelsNeedRuntime'
  <2>1. Between("free")' /\ ~Between("create")'
    BY <1>2, RuntimeAssumption DEF RuntimeTypeOK, FreeDelete, At, GoTo, MutexGuards, Between
  <2>2. kernel_count = Cardinality(live)
    BY CountOfHolder, LiveIsFinite DEF FreeDelete, At
  <2>3. Cardinality(live') = Cardinality(live) - 1
    BY LiveIsFinite DEF FreeDelete, At, Takes, TakenIsLive
  <2> QED
    BY <2>1, <2>2, <2>3, LiveIsFinite DEF FreeDelete, CountIsExact, KernelsNeedRuntime
<1> QED
  BY <1>1, <1>2, <1>3, <1>4

-----------------------------------------------------------------------------
(* The invariant holds initially and every step keeps it.                  *)
LEMMA RuntimeInitInv == ASSUME RuntimeInit PROVE RuntimeInv
<1>1. Cardinality(live) = 0
  BY FS_EmptySet DEF RuntimeInit
<1>2. \A o : ~Between(o)
  BY DEF RuntimeInit, Between
<1>3. RuntimeTypeOK
  BY DEF RuntimeInit, RuntimeTypeOK, Stages, Answers
<1>4. CountIsExact /\ KernelsNeedRuntime
  BY <1>1, <1>2 DEF RuntimeInit, CountIsExact, KernelsNeedRuntime
<1>5. MutexGuards /\ TakenIsLive /\ TakenOnce /\ FinalizeSawNone
  BY RuntimeAssumption DEF RuntimeInit, MutexGuards, Takes, TakenIsLive, TakenOnce, FinalizeSawNone
<1> QED
  BY <1>3, <1>4, <1>5 DEF RuntimeInv

LEMMA RuntimeNextInv == ASSUME RuntimeInv, [RuntimeNext]_runtime_vars PROVE RuntimeInv'
<1>1. CASE UNCHANGED runtime_vars
  BY <1>1
     DEF runtime_vars, shared, RuntimeInv, RuntimeTypeOK, CountIsExact, KernelsNeedRuntime,
          Between,
              MutexGuards, Takes, TakenIsLive, TakenOnce, FinalizeSawNone
<1>2. ASSUME NEW thread \in Threads, Enter(thread) PROVE RuntimeInv'
  BY <1>2, ThreadCallStep, CallFreeStep, NullHandleStep, LockStep, LockFailsStep DEF Enter
<1>3. ASSUME NEW thread \in Threads, Locked(thread) PROVE RuntimeInv'
  BY <1>3, InitializeStep, FinalizeCheckStep, FinalizeStoreStep, RefuseCreateStep,
     CreateAllocateStep, CreateCountStep, FreeDeleteStep, FreeCountStep DEF Locked
<1> QED
  BY <1>1, <1>2, <1>3 DEF RuntimeNext

(* The conjuncts of RuntimeInv hold in every state of every behaviour.     *)
THEOREM RuntimeInvariance == RuntimeSpec => []RuntimeInv
<1>1. RuntimeInit => RuntimeInv
  BY RuntimeInitInv
<1>2. RuntimeInv /\ [RuntimeNext]_runtime_vars => RuntimeInv'
  BY RuntimeNextInv
<1> QED
  BY <1>1, <1>2, PTL DEF RuntimeSpec

(* Every variable keeps its type.                                          *)
THEOREM RuntimeTypeCorrect == RuntimeSpec => []RuntimeTypeOK
<1>1. RuntimeInv => RuntimeTypeOK
  BY DEF RuntimeInv
<1> QED
  BY <1>1, RuntimeInvariance, PTL

(* The count uni_simd_finalize looks at is the number of kernels.          *)
THEOREM RuntimeCountCorrect == RuntimeSpec => []CountIsExact
<1>1. RuntimeInv => CountIsExact
  BY DEF RuntimeInv
<1> QED
  BY <1>1, RuntimeInvariance, PTL

(* No kernel outlives the runtime, however many threads call it.           *)
THEOREM RuntimeKernelsCorrect == RuntimeSpec => []KernelsNeedRuntime
<1>1. RuntimeInv => KernelsNeedRuntime
  BY DEF RuntimeInv
<1> QED
  BY <1>1, RuntimeInvariance, PTL

-----------------------------------------------------------------------------
(* Every step is a whole call of the atomic runtime, or none.              *)
LEMMA StepIsAtomic ==
  ASSUME RuntimeInv, [RuntimeNext]_runtime_vars
  PROVE  [Atomic!Next]_(Atomic!vars)
<1>1. CASE UNCHANGED runtime_vars
  BY <1>1 DEF runtime_vars, shared, Atomic!vars
<1>2. ASSUME NEW thread \in Threads, Enter(thread) PROVE UNCHANGED Atomic!vars
  BY <1>2 DEF Enter, CallRuntime, CallFree, NullHandle, Lock, LockFails, shared, Atomic!vars
<1>3. ASSUME NEW thread \in Threads, Initialize(thread) PROVE Atomic!Initialize
  BY <1>3 DEF Initialize, Atomic!Initialize
<1>4. ASSUME NEW thread \in Threads, FinalizeStore(thread) PROVE Atomic!Finalize
  BY <1>4, FinalizeStoreSawNone DEF FinalizeStore, Atomic!Finalize
<1>5. ASSUME NEW thread \in Threads, NEW kernel \in Kernels, CreateAllocate(thread, kernel)
      PROVE Atomic!Create(kernel)
  BY <1>5 DEF CreateAllocate, Atomic!Create
<1>6. ASSUME NEW thread \in Threads, FreeDelete(thread)
      PROVE \E kernel \in Kernels : Atomic!Free(kernel)
  <2>1. handle[thread] \in live /\ live \subseteq Kernels
    BY <1>6 DEF RuntimeInv, RuntimeTypeOK, FreeDelete, At, Takes, TakenIsLive
  <2> QED
    BY <2>1, <1>6 DEF FreeDelete, Atomic!Free
<1>7. ASSUME NEW thread \in Threads,
             FinalizeCheck(thread) \/ RefuseCreate(thread) \/ CreateCount(thread)
               \/ FreeCount(thread)
      PROVE UNCHANGED Atomic!vars
  BY <1>7 DEF FinalizeCheck, RefuseCreate, CreateCount, FreeCount, Atomic!vars
<1> QED
  BY <1>1, <1>2, <1>3, <1>4, <1>5, <1>6, <1>7 DEF RuntimeNext, Locked, Atomic!Next

(* The runtime implements the atomic one: the interleaved steps of the API *)
(* functions amount to whole calls, one after the other.                   *)
THEOREM RuntimeImplements == RuntimeSpec => IsAtomic
<1>1. RuntimeInit => Atomic!Init
  BY DEF RuntimeInit, Atomic!Init
<1>2. RuntimeInv /\ [RuntimeNext]_runtime_vars => [Atomic!Next]_(Atomic!vars)
  BY StepIsAtomic
<1> QED
  BY <1>1, <1>2, RuntimeInvariance, PTL DEF RuntimeSpec, IsAtomic, Atomic!Spec

-----------------------------------------------------------------------------
(* The selection.                                                          *)

Implementations == {"generic", "none", "sse2", "avx2", "avx2_fma", "neon",
                    "avx512f", "avx512bw", "avx512_pfb"}

Works(implementation) ==
  /\ implementation \in Implementations
  /\ CompiledIn[implementation] \subseteq build
  /\ Needs[implementation] \subseteq processor

(* Every entry of a context works.                                         *)
FunctionsWork(function) ==
  /\ function \in [Entries -> Implementations]
  /\ \A entry \in Entries : Works(function[entry])

ContextWorks(context) ==
  /\ context = [function |-> context.function, backend |-> context.backend]
  /\ FunctionsWork(context.function)

(* When the implementations work.                                          *)
LEMMA WorksFacts ==
  /\ Works("generic") /\ Works("none")
  /\ "sse2" \in build /\ HasAll({"sse2"}) => Works("sse2")
  /\ "avx2" \in build /\ HasAll({"avx2"}) => Works("avx2")
  /\ "avx2_fma" \in build /\ HasAll({"avx2", "fma"}) => Works("avx2_fma")
  /\ "neon" \in build /\ HasAll({"neon"}) => Works("neon")
  /\ "avx512f" \in build /\ HasAll({"avx512f"}) => Works("avx512f")
  /\ "avx512bw" \in build /\ HasAll({"avx512bw"}) => Works("avx512bw")
  /\ {"avx512f", "avx2_fma"} \subseteq build /\ HasAll({"avx512f"}) /\ HasAll({"avx2", "fma"})
       => Works("avx512_pfb")
<1>1. Works("generic") /\ Works("none")
  BY DEF Works, Implementations, CompiledIn, Needs
<1>2. "sse2" \in build /\ HasAll({"sse2"}) => Works("sse2")
  BY DEF Works, Implementations, HasAll, CompiledIn, Needs
<1>3. "avx2" \in build /\ HasAll({"avx2"}) => Works("avx2")
  BY DEF Works, Implementations, HasAll, CompiledIn, Needs
<1>4. "avx2_fma" \in build /\ HasAll({"avx2", "fma"}) => Works("avx2_fma")
  BY DEF Works, Implementations, HasAll, CompiledIn, Needs
<1>5. "neon" \in build /\ HasAll({"neon"}) => Works("neon")
  BY DEF Works, Implementations, HasAll, CompiledIn, Needs
<1>6. "avx512f" \in build /\ HasAll({"avx512f"}) => Works("avx512f")
  BY DEF Works, Implementations, HasAll, CompiledIn, Needs
<1>7. "avx512bw" \in build /\ HasAll({"avx512bw"}) => Works("avx512bw")
  BY DEF Works, Implementations, HasAll, CompiledIn, Needs
<1>8. {"avx512f", "avx2_fma"} \subseteq build /\ HasAll({"avx512f"}) /\ HasAll({"avx2", "fma"})
        => Works("avx512_pfb")
  BY DEF Works, Implementations, HasAll, CompiledIn, Needs
<1> QED
  BY <1>1, <1>2, <1>3, <1>4, <1>5, <1>6, <1>7, <1>8

(* Giving entries an implementation that works leaves a context working.   *)
LEMMA AssignedFacts ==
  ASSUME NEW context, FunctionsWork(context.function), NEW entries,
         NEW implementation, Works(implementation)
  PROVE  ContextWorks(Assigned(context, entries, implementation))
BY DEF ContextWorks, FunctionsWork, Assigned, Works

LEMMA GenericWorks == ContextWorks(GenericContext)
BY WorksFacts DEF ContextWorks, FunctionsWork, GenericContext, Implementations

LEMMA LayersWork ==
  ASSUME NEW context, ContextWorks(context), NEW requested
  PROVE  /\ ContextWorks(WithSse2(context, requested))
         /\ ContextWorks(WithAvx2(context, requested))
         /\ ContextWorks(WithAvx2Fma(context, requested))
         /\ ContextWorks(WithNeon(context, requested))
         /\ ContextWorks(WithAvx512bw(context, requested))
BY WorksFacts, AssignedFacts
   DEF ContextWorks, WithSse2, WithAvx2, WithAvx2Fma, WithNeon, WithAvx512bw

LEMMA Avx512fWorks ==
  ASSUME NEW context, ContextWorks(context), NEW requested
  PROVE  ContextWorks(WithAvx512f(context, requested))
<1> SUFFICES ASSUME "avx512f" \in build, HasAll({"avx512f"}), Allows(requested, "avx512")
             PROVE  ContextWorks(WithAvx512f(context, requested))
  BY DEF WithAvx512f
<1>1. Works("avx512f")
  BY WorksFacts
<1>2. ContextWorks(WithAvx512Pfb(context, requested))
  <2>1. CASE ~("avx2_fma" \in build /\ HasAll({"avx2", "fma"}))
    BY <2>1 DEF WithAvx512Pfb
  <2>2. CASE "avx2_fma" \in build /\ HasAll({"avx2", "fma"}) /\ requested = "automatic"
    <3>1. WithAvx512Pfb(context, requested) = [context EXCEPT !.function["pfb_runs"] = "avx512f"]
      BY <2>2 DEF WithAvx512Pfb
    <3>2. "avx512f" \in Implementations
      BY DEF Implementations
    <3> DEFINE helped == [context EXCEPT !.function["pfb_runs"] = "avx512f"]
    <3>3. helped.function = [context.function EXCEPT !["pfb_runs"] = "avx512f"]
      BY DEF ContextWorks
    <3>4. FunctionsWork(helped.function)
      BY <1>1, <3>2, <3>3 DEF ContextWorks, FunctionsWork
    <3>5. helped = [function |-> helped.function, backend |-> helped.backend]
      BY DEF ContextWorks
    <3> QED
      BY <3>1, <3>4, <3>5 DEF ContextWorks
  <2>3. CASE "avx2_fma" \in build /\ HasAll({"avx2", "fma"}) /\ requested # "automatic"
    <3> DEFINE rescued == [context EXCEPT
                             !.function["pfb_fallback"] = context.function["pfb_channelizer"],
                             !.backend["pfb_fallback"] = context.backend["pfb_channelizer"]]
    <3>1. "pfb_channelizer" \in Entries
      BY DEF Entries
    <3>2. rescued.function =
            [context.function EXCEPT !["pfb_fallback"] = context.function["pfb_channelizer"]]
      BY DEF ContextWorks
    <3>3. FunctionsWork(rescued.function)
      BY <3>1, <3>2 DEF ContextWorks, FunctionsWork
    <3>4. Works("avx512_pfb")
      BY <2>3, WorksFacts
    <3>5. WithAvx512Pfb(context, requested) = Assigned(rescued, {"pfb_channelizer"}, "avx512_pfb")
      BY <2>3 DEF WithAvx512Pfb
    <3> QED
      BY <3>3, <3>4, <3>5, AssignedFacts
  <2> QED
    BY <2>1, <2>2, <2>3
<1> QED
  BY <1>1, <1>2, AssignedFacts DEF ContextWorks, WithAvx512f

LEMMA ContextAlwaysWorks ==
  ASSUME NEW asked PROVE ContextWorks(Context(asked))
BY GenericWorks, LayersWork, Avx512fWorks DEF Context

(* What the stateful kernels choose for themselves works.                  *)
LEMMA LoopsWork ==
  ASSUME NEW kernel \in Loops, NEW asked PROVE Works(LoopChoice(kernel, asked))
BY WorksFacts DEF LoopChoice, AnalyzerChoice, UsesVectors

LEMMA ExecutionWorks ==
  ASSUME NEW kernel \in KernelIds, NEW data, NEW asked
  PROVE  \A implementation \in Execution(kernel, data, asked).ran : Works(implementation)
<1> DEFINE context == Context(asked)
<1>1. ContextWorks(context) /\ Works("generic")
  BY ContextAlwaysWorks, WorksFacts
<1> HIDE DEF context
<1>2. ASSUME kernel \in Primitives
      PROVE  \A implementation \in Primitive(kernel, data, context, asked.deterministic).ran :
               Works(implementation)
  BY <1>1, <1>2 DEF Primitive, Ran, ContextWorks, FunctionsWork, Entries
<1>3. \A implementation \in Ifft(data, context).ran : Works(implementation)
  BY <1>1 DEF Ifft, Ran, ContextWorks, FunctionsWork, Entries
<1>4. \A implementation \in Channelizer(data, context).ran : Works(implementation)
  BY <1>1 DEF Channelizer, Ran, ContextWorks, FunctionsWork, Entries
<1>5. ASSUME kernel \in Loops
      PROVE  \A implementation \in Ran({LoopChoice(kernel, asked)},
                                      BackendOf(LoopChoice(kernel, asked))).ran :
               Works(implementation)
  BY <1>5, LoopsWork DEF Ran
<1>6. kernel \in Primitives \cup Loops \cup {"copy", "ifft", "pfb_channelizer"}
  BY DEF KernelIds
<1> QED
  BY <1>1, <1>2, <1>3, <1>4, <1>5, <1>6
     DEF Execution, context, Ran, Primitives, Loops, Inverts, LsbBits, MsbBits, Powers, Dots

-----------------------------------------------------------------------------
(* The same argument for what a request excludes: layers above it add      *)
(* nothing to its context.                                                 *)
Permitted(implementation, requested, spares) ==
  /\ implementation \in Implementations \ {"none"}
  /\ requested # "automatic" => Rank[BackendOf(implementation)] <= Rank[requested]
  /\ spares => BackendOf(implementation) # "avx512"

FunctionsPermitted(function, requested, spares) ==
  /\ function \in [Entries -> Implementations]
  /\ \A entry \in Entries :
       \/ Permitted(function[entry], requested, spares)
       \/ function[entry] = "none" /\ entry \in {"pfb_fallback", "pfb_runs"}

ContextPermitted(context, requested, spares) ==
  /\ context = [function |-> context.function, backend |-> context.backend]
  /\ FunctionsPermitted(context.function, requested, spares)

LEMMA PermittedFacts ==
  ASSUME NEW requested \in Backends, NEW spares \in BOOLEAN
  PROVE  /\ Permitted("generic", requested, spares)
         /\ Allows(requested, "sse2") => Permitted("sse2", requested, spares)
         /\ Allows(requested, "avx2") => Permitted("avx2", requested, spares)
         /\ Allows(requested, "avx2_fma") => Permitted("avx2_fma", requested, spares)
         /\ Allows(requested, "neon") => Permitted("neon", requested, spares)
         /\ ~spares /\ Allows(requested, "avx512") =>
              \A implementation \in {"avx512f", "avx512bw", "avx512_pfb"} :
                Permitted(implementation, requested, spares)
BY DEF Permitted, Allows, Implementations, BackendOf, Rank, Backends

LEMMA AssignedPermitted ==
  ASSUME NEW requested, NEW spares,
         NEW context, FunctionsPermitted(context.function, requested, spares),
         NEW entries, NEW implementation, Permitted(implementation, requested, spares)
  PROVE  ContextPermitted(Assigned(context, entries, implementation), requested, spares)
BY DEF ContextPermitted, FunctionsPermitted, Assigned, Permitted

LEMMA GenericPermitted ==
  ASSUME NEW requested \in Backends, NEW spares \in BOOLEAN
  PROVE  ContextPermitted(GenericContext, requested, spares)
BY PermittedFacts DEF ContextPermitted, FunctionsPermitted, GenericContext, Implementations

LEMMA LayersPermitted ==
  ASSUME NEW requested \in Backends, NEW spares \in BOOLEAN,
         NEW context, ContextPermitted(context, requested, spares)
  PROVE  /\ ContextPermitted(WithSse2(context, requested), requested, spares)
         /\ ContextPermitted(WithAvx2(context, requested), requested, spares)
         /\ ContextPermitted(WithAvx2Fma(context, requested), requested, spares)
         /\ ContextPermitted(WithNeon(context, requested), requested, spares)
<1>1. \A entries, implementation :
        Permitted(implementation, requested, spares) =>
          ContextPermitted(Assigned(context, entries, implementation), requested, spares)
  BY AssignedPermitted DEF ContextPermitted
<1>2. ContextPermitted(WithSse2(context, requested), requested, spares)
  BY <1>1, PermittedFacts DEF WithSse2
<1>3. ContextPermitted(WithAvx2(context, requested), requested, spares)
  BY <1>1, PermittedFacts DEF WithAvx2
<1>4. ContextPermitted(WithAvx2Fma(context, requested), requested, spares)
  BY <1>1, PermittedFacts DEF WithAvx2Fma
<1>5. ContextPermitted(WithNeon(context, requested), requested, spares)
  BY <1>1, PermittedFacts DEF WithNeon
<1> QED
  BY <1>2, <1>3, <1>4, <1>5

LEMMA Avx512Permitted ==
  ASSUME NEW requested \in Backends, NEW spares \in BOOLEAN, ~spares,
         NEW context, ContextPermitted(context, requested, spares)
  PROVE  /\ ContextPermitted(WithAvx512f(context, requested), requested, spares)
         /\ ContextPermitted(WithAvx512bw(context, requested), requested, spares)
<1>1. Allows(requested, "avx512") =>
        \A implementation \in {"avx512f", "avx512bw", "avx512_pfb"} :
          Permitted(implementation, requested, spares)
  BY PermittedFacts
<1>2. ContextPermitted(WithAvx512bw(context, requested), requested, spares)
  BY <1>1, AssignedPermitted DEF ContextPermitted, WithAvx512bw
<1>3. ASSUME Allows(requested, "avx512")
      PROVE  ContextPermitted(WithAvx512Pfb(context, requested), requested, spares)
  <2>1. CASE ~("avx2_fma" \in build /\ HasAll({"avx2", "fma"}))
    BY <2>1 DEF WithAvx512Pfb
  <2>2. CASE "avx2_fma" \in build /\ HasAll({"avx2", "fma"}) /\ requested = "automatic"
    <3>1. WithAvx512Pfb(context, requested) = [context EXCEPT !.function["pfb_runs"] = "avx512f"]
      BY <2>2 DEF WithAvx512Pfb
    <3>2. Permitted("avx512f", requested, spares) /\ "avx512f" \in Implementations
      BY <1>1, <1>3 DEF Implementations
    <3> DEFINE helped == [context EXCEPT !.function["pfb_runs"] = "avx512f"]
    <3>3. helped.function = [context.function EXCEPT !["pfb_runs"] = "avx512f"]
      BY DEF ContextPermitted
    <3>4. FunctionsPermitted(helped.function, requested, spares)
      BY <3>2, <3>3 DEF ContextPermitted, FunctionsPermitted
    <3>5. helped = [function |-> helped.function, backend |-> helped.backend]
      BY DEF ContextPermitted
    <3> QED
      BY <3>1, <3>4, <3>5 DEF ContextPermitted
  <2>3. CASE "avx2_fma" \in build /\ HasAll({"avx2", "fma"}) /\ requested # "automatic"
    <3> DEFINE rescued == [context EXCEPT
                             !.function["pfb_fallback"] = context.function["pfb_channelizer"],
                             !.backend["pfb_fallback"] = context.backend["pfb_channelizer"]]
    <3>1. "pfb_channelizer" \in Entries
      BY DEF Entries
    <3>2. rescued.function =
            [context.function EXCEPT !["pfb_fallback"] = context.function["pfb_channelizer"]]
      BY DEF ContextPermitted
    <3>3. FunctionsPermitted(rescued.function, requested, spares)
      BY <3>1, <3>2 DEF ContextPermitted, FunctionsPermitted
    <3>4. WithAvx512Pfb(context, requested) = Assigned(rescued, {"pfb_channelizer"}, "avx512_pfb")
      BY <2>3 DEF WithAvx512Pfb
    <3> QED
      BY <1>1, <1>3, <3>3, <3>4, AssignedPermitted
  <2> QED
    BY <2>1, <2>2, <2>3
<1>4. ContextPermitted(WithAvx512f(context, requested), requested, spares)
  BY <1>1, <1>3, AssignedPermitted DEF ContextPermitted, WithAvx512f
<1> QED
  BY <1>2, <1>4

LEMMA ContextAlwaysPermitted ==
  ASSUME NEW asked \in BackendRequests
  PROVE  ContextPermitted(Context(asked), Requested(asked),
                          SparesEnergy(asked, Requested(asked)))
<1>1. Requested(asked) \in Backends /\ SparesEnergy(asked, Requested(asked)) \in BOOLEAN
  BY DEF Requested, BackendRequests, Backends, SparesEnergy
<1> QED
  BY <1>1, GenericPermitted, LayersPermitted, Avx512Permitted DEF Context

(* What a request lets run.                                                *)
Within(kernel, asked, implementation) ==
  /\ asked.backend # "automatic" => Rank[BackendOf(implementation)] <= Rank[asked.backend]
  /\ asked.deterministic => implementation = "generic" \/ kernel = "viterbi_k7r2"
  /\ asked.prefer_energy_efficiency /\ asked.backend = "automatic" =>
       BackendOf(implementation) # "avx512"

LEMMA PermittedIsWithin ==
  ASSUME NEW kernel, NEW asked \in BackendRequests, NEW implementation,
         Permitted(implementation, Requested(asked), SparesEnergy(asked, Requested(asked)))
  PROVE  Within(kernel, asked, implementation)
BY DEF Permitted, Requested, BackendRequests, Backends, SparesEnergy, Within, Implementations,
       BackendOf, Rank

LEMMA LoopsWithin ==
  ASSUME NEW kernel \in Loops, NEW asked \in BackendRequests
  PROVE  Within(kernel, asked, LoopChoice(kernel, asked))
<1>1. CASE kernel = "carrier_analyzer"
  <2>1. LoopChoice(kernel, asked) = AnalyzerChoice(asked)
    BY <1>1 DEF LoopChoice
  <2>2. \/ AnalyzerChoice(asked) = "generic"
        \/ /\ AnalyzerChoice(asked) = "neon" /\ ~asked.deterministic
           /\ asked.backend \in {"automatic", "neon"}
        \/ /\ AnalyzerChoice(asked) = "avx512f" /\ ~asked.deterministic
           /\ asked.backend \in {"automatic", "avx512"}
           /\ asked.backend = "automatic" => ~asked.prefer_energy_efficiency
        \/ /\ AnalyzerChoice(asked) = "avx2_fma" /\ ~asked.deterministic
           /\ asked.backend \in {"automatic", "avx2_fma", "avx512"}
    BY DEF AnalyzerChoice
  <2>3. Within(kernel, asked, AnalyzerChoice(asked))
    BY <2>2 DEF BackendRequests, Backends, Within, BackendOf, Rank
  <2> QED
    BY <2>1, <2>3
<1>2. CASE kernel # "carrier_analyzer" /\ ~UsesVectors(kernel, asked)
  <2>1. LoopChoice(kernel, asked) = "generic"
    BY <1>2 DEF LoopChoice
  <2> QED
    BY <2>1 DEF BackendRequests, Backends, Within, BackendOf, Rank
<1>3. CASE kernel = "viterbi_k7r2" /\ UsesVectors(kernel, asked)
  <2>1. /\ LoopChoice(kernel, asked) = "avx2"
        /\ asked.backend \in {"automatic", "avx2", "avx2_fma", "avx512"}
    BY <1>3 DEF LoopChoice, UsesVectors
  <2> QED
    BY <1>3, <2>1 DEF Within, BackendOf, Rank
<1>4. CASE /\ kernel \notin {"carrier_analyzer", "viterbi_k7r2"}
           /\ UsesVectors(kernel, asked)
  <2>1. /\ LoopChoice(kernel, asked) = "avx2_fma" /\ ~asked.deterministic
        /\ asked.backend \in {"automatic", "avx2_fma", "avx512"}
    BY <1>4 DEF LoopChoice, UsesVectors
  <2> QED
    BY <2>1 DEF Within, BackendOf, Rank
<1> QED
  BY <1>1, <1>2, <1>3, <1>4

LEMMA ExecutionWithin ==
  ASSUME NEW kernel \in KernelIds, NEW data, NEW asked \in BackendRequests
  PROVE  \A implementation \in Execution(kernel, data, asked).ran :
           Within(kernel, asked, implementation)
<1> DEFINE context == Context(asked)
           requested == Requested(asked)
           spares == SparesEnergy(asked, requested)
<1>1. ContextPermitted(context, requested, spares) /\ Permitted("generic", requested, spares)
  BY ContextAlwaysPermitted, PermittedFacts DEF Requested, BackendRequests, Backends, SparesEnergy
<1>2. \A implementation : Permitted(implementation, requested, spares) =>
                            Within(kernel, asked, implementation)
  BY PermittedIsWithin
<1> HIDE DEF context, requested, spares
<1>3. ASSUME kernel \in Primitives
      PROVE  \A implementation \in Primitive(kernel, data, context, asked.deterministic).ran :
               Permitted(implementation, requested, spares)
  <2>1. kernel \in Entries \ {"pfb_fallback", "pfb_runs"}
    BY <1>3 DEF Entries, Primitives, Inverts, LsbBits, MsbBits, Powers, Dots
  <2> QED
    BY <1>1, <2>1 DEF Primitive, Ran, ContextPermitted, FunctionsPermitted
<1>4. \A implementation \in Ifft(data, context).ran : Permitted(implementation, requested, spares)
  BY <1>1 DEF Ifft, Ran, ContextPermitted, FunctionsPermitted, Entries
<1>5. \A implementation \in Channelizer(data, context).ran :
        Permitted(implementation, requested, spares)
  BY <1>1 DEF Channelizer, Ran, ContextPermitted, FunctionsPermitted, Entries
<1>6. ASSUME kernel \in Loops
      PROVE  \A implementation \in Ran({LoopChoice(kernel, asked)},
                                      BackendOf(LoopChoice(kernel, asked))).ran :
               Within(kernel, asked, implementation)
  BY <1>6, LoopsWithin DEF Ran
<1>7. kernel \in Primitives \cup Loops \cup {"copy", "ifft", "pfb_channelizer"}
  BY DEF KernelIds
<1> QED
  BY <1>1, <1>2, <1>3, <1>4, <1>5, <1>6, <1>7
     DEF Execution, context, Ran, Primitives, Loops, Inverts, LsbBits, MsbBits, Powers, Dots

-----------------------------------------------------------------------------
(* Whatever the processor, the build and the request, nothing runs that    *)
(* the build does not contain or the processor cannot execute.             *)
THEOREM RunsOnlyWhatWorks == DispatchSpec => []RunsHere
<1>1. DispatchInit => RunsHere
  BY DEF DispatchInit, NoCall, RunsHere
<1>2. RunsHere /\ [DispatchNext]_dispatch_vars => RunsHere'
  <2> SUFFICES ASSUME RunsHere, [DispatchNext]_dispatch_vars
               PROVE  RunsHere'
    OBVIOUS
  <2>1. ASSUME NEW kernel \in KernelIds, NEW data \in Data, NEW asked \in BackendRequests,
               ExecuteOnce(kernel, data, asked)
        PROVE  RunsHere'
    <3>1. processor' = processor /\ build' = build
      BY <2>1 DEF ExecuteOnce
    <3>2. \/ call'.ran = {}
          \/ call'.ran = Execution(kernel, data, asked).ran
      BY <2>1 DEF ExecuteOnce, ReportRefusal
    <3> QED
      BY <3>1, <3>2, ExecutionWorks DEF RunsHere, Works
  <2>2. CASE Free
    BY <2>2 DEF Free, NoCall, RunsHere
  <2>3. CASE UNCHANGED dispatch_vars
    BY <2>3 DEF dispatch_vars, RunsHere
  <2> QED
    BY <2>1, <2>2, <2>3 DEF DispatchNext
<1> QED
  BY <1>1, <1>2, PTL DEF DispatchSpec

(* Whatever the processor and the build, nothing runs beyond the request:  *)
(* above an explicit backend, vectors of floating point for deterministic  *)
(* results, or AVX-512 when energy matters.                                *)
THEOREM RunsWithinRequest == DispatchSpec => []WithinRequest
<1>1. DispatchInit => WithinRequest
  BY DEF DispatchInit, NoCall, WithinRequest
<1>2. WithinRequest /\ [DispatchNext]_dispatch_vars => WithinRequest'
  <2> SUFFICES ASSUME WithinRequest, [DispatchNext]_dispatch_vars
               PROVE  WithinRequest'
    OBVIOUS
  <2>1. ASSUME NEW kernel \in KernelIds, NEW data \in Data, NEW asked \in BackendRequests,
               ExecuteOnce(kernel, data, asked)
        PROVE  WithinRequest'
    <3>1. call'.request = asked /\ call'.kernel = kernel
      BY <2>1 DEF ExecuteOnce, ReportRefusal
    <3>2. \/ call'.ran = {}
          \/ call'.ran = Execution(kernel, data, asked).ran
      BY <2>1 DEF ExecuteOnce, ReportRefusal
    <3> QED
      BY <3>1, <3>2, ExecutionWithin DEF WithinRequest, Within
  <2>2. CASE Free
    BY <2>2 DEF Free, NoCall, WithinRequest
  <2>3. CASE UNCHANGED dispatch_vars
    BY <2>3 DEF dispatch_vars, WithinRequest
  <2> QED
    BY <2>1, <2>2, <2>3 DEF DispatchNext
<1> QED
  BY <1>1, <1>2, PTL DEF DispatchSpec

-----------------------------------------------------------------------------
(* A context reports, for whatever it calls, the backend it calls; only    *)
(* the AVX-512 hops of AVX2 loops have no report of their own.             *)
Reported == Entries \ {"pfb_fallback", "pfb_runs"}

TablesReport(context) ==
  /\ DOMAIN context.function = Entries /\ DOMAIN context.backend = Entries
  /\ \A entry \in Reported : context.backend[entry] = BackendOf(context.function[entry])
  /\ context.function["pfb_fallback"] # "none" =>
       context.backend["pfb_fallback"] = BackendOf(context.function["pfb_fallback"])
  /\ context.function["pfb_runs"] \in {"none", "avx512f"}

ContextReports(context) ==
  /\ context = [function |-> context.function, backend |-> context.backend]
  /\ TablesReport(context)

LEMMA AssignedReports ==
  ASSUME NEW context, TablesReport(context), NEW entries, NEW implementation,
         "pfb_runs" \notin entries
  PROVE  ContextReports(Assigned(context, entries, implementation))
<1>1. "pfb_runs" \in Entries /\ "pfb_fallback" \in Entries
  BY DEF Entries
<1> QED
  BY <1>1 DEF ContextReports, TablesReport, Assigned, Reported

LEMMA GenericReports == ContextReports(GenericContext)
BY DEF ContextReports, TablesReport, GenericContext, Reported, BackendOf, Entries

LEMMA Avx512PfbReports ==
  ASSUME NEW context, ContextReports(context), NEW requested
  PROVE  ContextReports(WithAvx512Pfb(context, requested))
<1>1. CASE ~("avx2_fma" \in build /\ HasAll({"avx2", "fma"}))
  BY <1>1 DEF WithAvx512Pfb
<1>2. CASE "avx2_fma" \in build /\ HasAll({"avx2", "fma"}) /\ requested = "automatic"
  <2> DEFINE helped == [context EXCEPT !.function["pfb_runs"] = "avx512f"]
  <2>1. WithAvx512Pfb(context, requested) = helped
    BY <1>2 DEF WithAvx512Pfb
  <2>2. /\ helped = [function |-> helped.function, backend |-> helped.backend]
        /\ helped.backend = context.backend
        /\ helped.function = [context.function EXCEPT !["pfb_runs"] = "avx512f"]
    BY DEF ContextReports
  <2> HIDE DEF helped
  <2>3. ContextReports(helped)
    BY <2>2 DEF ContextReports, TablesReport, Reported, Entries
  <2> QED
    BY <2>1, <2>3
<1>3. CASE "avx2_fma" \in build /\ HasAll({"avx2", "fma"}) /\ requested # "automatic"
  <2> DEFINE rescued == [context EXCEPT
                           !.function["pfb_fallback"] = context.function["pfb_channelizer"],
                           !.backend["pfb_fallback"] = context.backend["pfb_channelizer"]]
  <2>1. WithAvx512Pfb(context, requested) = Assigned(rescued, {"pfb_channelizer"}, "avx512_pfb")
    BY <1>3 DEF WithAvx512Pfb
  <2>2. rescued.function =
          [context.function EXCEPT !["pfb_fallback"] = context.function["pfb_channelizer"]]
    BY DEF ContextReports
  <2>3. rescued.backend =
          [context.backend EXCEPT !["pfb_fallback"] = context.backend["pfb_channelizer"]]
    BY DEF ContextReports
  <2> HIDE DEF rescued
  <2>4. TablesReport(rescued)
    BY <2>2, <2>3 DEF ContextReports, TablesReport, Reported, Entries
  <2> QED
    BY <2>1, <2>4, AssignedReports
<1> QED
  BY <1>1, <1>2, <1>3

LEMMA LayersReport ==
  ASSUME NEW context, ContextReports(context), NEW requested
  PROVE  /\ ContextReports(WithSse2(context, requested))
         /\ ContextReports(WithAvx2(context, requested))
         /\ ContextReports(WithAvx2Fma(context, requested))
         /\ ContextReports(WithNeon(context, requested))
         /\ ContextReports(WithAvx512f(context, requested))
         /\ ContextReports(WithAvx512bw(context, requested))
<1>1. "pfb_runs" \notin Primitives \cup Dots \cup Inverts \cup LsbBits \cup {"pfb_channelizer", "ifft"}
  BY DEF Primitives, Inverts, LsbBits, MsbBits, Powers, Dots
<1> QED
  BY <1>1, AssignedReports, Avx512PfbReports
  DEF ContextReports, WithSse2, WithAvx2, WithAvx2Fma, WithNeon, WithAvx512f, WithAvx512bw

LEMMA ContextAlwaysReports ==
  ASSUME NEW asked PROVE ContextReports(Context(asked))
BY GenericReports, LayersReport DEF Context

(* Deterministic results come from a context without vectors.              *)
LEMMA DeterministicContext ==
  ASSUME NEW asked, asked.deterministic PROVE Context(asked) = GenericContext
<1>1. Requested(asked) = "generic"
  BY DEF Requested
<1>2. \A candidate \in {"sse2", "avx2", "avx2_fma", "avx512", "neon"} :
        ~Allows("generic", candidate)
  BY DEF Allows, Rank
<1>3. \A context : /\ WithSse2(context, "generic") = context
                   /\ WithAvx2(context, "generic") = context
                   /\ WithAvx2Fma(context, "generic") = context
                   /\ WithNeon(context, "generic") = context
                   /\ WithAvx512f(context, "generic") = context
                   /\ WithAvx512bw(context, "generic") = context
  BY <1>2 DEF WithSse2, WithAvx2, WithAvx2Fma, WithNeon, WithAvx512f, WithAvx512bw
<1> QED
  BY <1>1, <1>3 DEF Context

(* What ReportFollowsChoice says of one execution.                         *)
Reports(kernel, data, reported, implementation) ==
  \/ reported = BackendOf(implementation)
  \/ data = "rare" /\ kernel \in {"quantize"} \cup Powers /\ implementation = "generic"
  \/ data = "d4x4" /\ reported = "avx2_fma" /\ implementation = "avx512f"

LEMMA ChannelizerReports ==
  ASSUME NEW context, ContextReports(context), NEW data, NEW kernel,
         NEW unit \in Channelizer(data, context).ran
  PROVE  Reports(kernel, data, Channelizer(data, context).reported, unit)
<1> DEFINE chosen == context.function["pfb_channelizer"]
           fallback == context.function["pfb_fallback"]
           helper == context.function["pfb_runs"]
           runs == {other \in {helper} :
                      data = "d4x4" /\ chosen = "avx2_fma" /\ other # "none"}
<1>1. /\ context.backend["pfb_channelizer"] = BackendOf(chosen) /\ BackendOf("generic") = "generic"
      /\ fallback # "none" => context.backend["pfb_fallback"] = BackendOf(fallback)
      /\ helper \in {"none", "avx512f"} /\ BackendOf("avx2_fma") = "avx2_fma"
  BY DEF ContextReports, TablesReport, Reported, Entries, BackendOf
<1> HIDE DEF chosen, fallback, helper
<1>2. CASE chosen # "avx512_pfb" \/ data # "rare"
  <2>1. Channelizer(data, context) = Ran({chosen} \cup runs, context.backend["pfb_channelizer"])
    BY <1>2 DEF Channelizer, chosen, fallback, helper
  <2>2. unit = chosen \/ (unit = helper /\ data = "d4x4" /\ chosen = "avx2_fma" /\ unit # "none")
    BY <2>1 DEF Ran
  <2> QED
    BY <1>1, <2>1, <2>2 DEF Ran, Reports
<1>3. CASE chosen = "avx512_pfb" /\ data = "rare" /\ fallback # "none"
  <2>1. Channelizer(data, context) = Ran({fallback}, context.backend["pfb_fallback"])
    BY <1>3 DEF Channelizer, chosen, fallback, helper
  <2> QED
    BY <1>1, <1>3, <2>1 DEF Ran, Reports
<1>4. CASE chosen = "avx512_pfb" /\ data = "rare" /\ fallback = "none"
  <2>1. Channelizer(data, context) = Ran({"generic"}, "generic")
    BY <1>4 DEF Channelizer, chosen, fallback, helper
  <2> QED
    BY <1>1, <2>1 DEF Ran, Reports
<1> QED
  BY <1>2, <1>3, <1>4

LEMMA ExecutionReports ==
  ASSUME NEW kernel \in KernelIds, NEW data \in Data, NEW asked,
         NEW implementation \in Execution(kernel, data, asked).ran
  PROVE  Reports(kernel, data, Execution(kernel, data, asked).reported, implementation)
<1> DEFINE context == Context(asked)
<1>1. ContextReports(context) /\ BackendOf("generic") = "generic"
  BY ContextAlwaysReports DEF BackendOf
<1>2. asked.deterministic => \A entry \in Primitives : context.backend[entry] = "generic"
  BY DeterministicContext DEF GenericContext, Entries
<1> HIDE DEF context
<1>3. ASSUME kernel \in Primitives,
             NEW unit \in Primitive(kernel, data, context, asked.deterministic).ran
      PROVE  Reports(kernel, data, Primitive(kernel, data, context, asked.deterministic).reported,
                     unit)
  <2>1. kernel \in Reported
    BY <1>3 DEF Reported, Entries, Primitives, Inverts, LsbBits, MsbBits, Powers, Dots
  <2> QED
    BY <1>1, <1>2, <1>3, <2>1 DEF Primitive, Ran, ContextReports, TablesReport, Reports
<1>4. ASSUME NEW unit \in Ifft(data, context).ran
      PROVE  Reports(kernel, data, Ifft(data, context).reported, unit)
  BY <1>1, <1>4 DEF Ifft, Ran, ContextReports, TablesReport, Reported, Entries, Reports
<1>5. ASSUME NEW unit \in Channelizer(data, context).ran
      PROVE  Reports(kernel, data, Channelizer(data, context).reported, unit)
  BY <1>1, <1>5, ChannelizerReports
<1>6. kernel \in Primitives \cup Loops \cup {"copy", "ifft", "pfb_channelizer"}
  BY DEF KernelIds
<1>7. CASE kernel \in Primitives \cup {"ifft", "pfb_channelizer"}
  BY <1>3, <1>4, <1>5, <1>7
     DEF Execution, context, Primitives, Loops, Inverts, LsbBits, MsbBits, Powers, Dots
<1>8. CASE kernel \in Loops \cup {"copy"}
  BY <1>1, <1>8
     DEF Execution, Ran, Reports, Primitives, Loops, Inverts, LsbBits, MsbBits, Powers, Dots
<1> QED
  BY <1>6, <1>7, <1>8

(* Whatever the processor, the build and the request, an execution reports *)
(* the backend of all that runs for it, but for the scalar loops and the   *)
(* AVX-512 hops that ReportFollowsChoice names.                            *)
THEOREM ReportsWhatRuns == DispatchSpec => []ReportFollowsChoice
<1>1. DispatchInit => ReportFollowsChoice
  BY DEF DispatchInit, NoCall, ReportFollowsChoice
<1>2. ReportFollowsChoice /\ [DispatchNext]_dispatch_vars => ReportFollowsChoice'
  <2> SUFFICES ASSUME ReportFollowsChoice, [DispatchNext]_dispatch_vars
               PROVE  ReportFollowsChoice'
    OBVIOUS
  <2>1. ASSUME NEW kernel \in KernelIds, NEW data \in Data, NEW asked \in BackendRequests,
               ExecuteOnce(kernel, data, asked)
        PROVE  ReportFollowsChoice'
    <3>1. call'.data = data /\ call'.kernel = kernel
      BY <2>1 DEF ExecuteOnce, ReportRefusal
    <3>2. \/ call'.ran = {}
          \/ /\ call'.ran = Execution(kernel, data, asked).ran
             /\ call'.reported = Execution(kernel, data, asked).reported
      BY <2>1 DEF ExecuteOnce, ReportRefusal
    <3> QED
      BY <3>1, <3>2, ExecutionReports DEF ReportFollowsChoice, Reports
  <2>2. CASE Free
    BY <2>2 DEF Free, NoCall, ReportFollowsChoice
  <2>3. CASE UNCHANGED dispatch_vars
    BY <2>3 DEF dispatch_vars, ReportFollowsChoice
  <2> QED
    BY <2>1, <2>2, <2>3 DEF DispatchNext
<1> QED
  BY <1>1, <1>2, PTL DEF DispatchSpec
=============================================================================
