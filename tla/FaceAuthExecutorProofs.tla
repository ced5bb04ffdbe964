------------------------ MODULE FaceAuthExecutorProofs ------------------------
(***************************************************************************)
(* Proofs about FaceAuthExecutor, for any requests, codes and number of    *)
(* reports.                                                                *)
(***************************************************************************)
EXTENDS FaceAuthExecutor, SequenceTheorems, FiniteSetTheorems, WellFoundedInduction, TLAPS

Whats == {"result", "tip", "message"}
Report == [what : Whats, code : Nat]
UnderWay == [pc : {"none", "called", "tell"}, what : Whats \cup {"none"}, code : Nat]

(* Types of what the driver reports and of what is made of it.             *)
ReportsTyped ==
    /\ sent \in [Requests -> Seq(Report)]
    /\ told \in [Requests -> Seq(Report)]
    /\ report \in [Requests -> UnderWay]
    /\ vibrations \in [Requests -> Nat]
    /\ DOMAIN req = Requests

(* The report under way is the last one that was sent; nothing is reported *)
(* on a request whose callback the driver does not have, and it has none   *)
(* before the request was made.                                            *)
LastSent(r) ==
    /\ report[r].pc = "none" => report[r].what = "none"
    /\ report[r].pc # "none" =>
          /\ Len(sent[r]) > 0
          /\ sent[r][Len(sent[r])] = [what |-> report[r].what, code |-> report[r].code]
    /\ req[r].pc = "none" => r \notin asked
    /\ r \notin asked => sent[r] = <<>> /\ report[r].pc = "none"

AllLastSent == \A r \in Requests : LastSent(r)

Faithful(r) ==
    /\ Len(told[r]) = Len(sent[r]) - (IF report[r].pc = "none" THEN 0 ELSE 1)
    /\ \A i \in 1..Len(told[r]) :
          /\ told[r][i].what = sent[r][i].what
          /\ told[r][i].what = "result" =>
                (told[r][i].code = SUCCESS <=> sent[r][i].code = SUCCESS)

ToldInv == ReportsTyped /\ AllLastSent /\ \A r \in Requests : Faithful(r)

-------------------------------------------------------------------------------
(* No code becomes a success but success itself, and what makes the phone  *)
(* vibrate is FAIL, or OPERATION_NOT_SUPPORT, which is told as FAIL.       *)
LEMMA CodesConverted ==
    ASSUME NEW c \in Nat
    PROVE  /\ ConvertResultCode(c) \in Nat
           /\ ConvertResultCode(c) = SUCCESS <=> c = SUCCESS
           /\ ConvertResultCode(c) = FAIL <=> c \in {FAIL, OPERATION_NOT_SUPPORT}
BY DEF ConvertResultCode, SUCCESS, FAIL, GENERAL_ERROR, OPERATION_NOT_SUPPORT, VENDOR_RESULT_CODE_BEGIN

(* What a step does to one request.                                        *)
Begins(r) ==
    /\ req[r].pc = "none" /\ req'[r].pc # "none"
    /\ UNCHANGED <<sent, told, report, vibrations>>
    /\ asked' = asked \/ asked' = asked \cup {r}

ReportArrives(r, x) ==
    /\ r \in asked /\ report[r].pc = "none"
    /\ sent' = [sent EXCEPT ![r] = Append(@, x)]
    /\ report' = [report EXCEPT ![r] = [pc |-> "called", what |-> x.what, code |-> x.code]]
    /\ UNCHANGED <<req, asked, told, vibrations>>

Told(r, code) ==
    /\ report[r].what \in Whats
    /\ report[r].what = "result" => code = ConvertResultCode(report[r].code)
    /\ report[r].what # "result" => code = report[r].code
    /\ Tells(r, code)

LEMMA ExecutorSteps ==
    ASSUME [Next]_vars, ReportsTyped, AllLastSent
    PROVE  \/ UNCHANGED <<req, asked, sent, told, report, vibrations>>
           \/ \E r \in Requests :
                 \/ Begins(r) /\ \E x : req' = [req EXCEPT ![r] = x]
                 \/ /\ \E status \in HdfStatus, info \in ExecutorInfos : Returns(r, status, info)
                    /\ req[r].pc # "none" /\ req'[r].pc # "none" /\ req'[r].kind = req[r].kind
                    /\ \A q \in Requests \ {r} : req'[q] = req[q]
                    /\ UNCHANGED <<asked, sent, told, report, vibrations>>
                 \/ \E x \in Report : ReportArrives(r, x)
                 \/ DoVibrator(r)
                 \/ /\ report[r].pc # "none"
                    /\ \E code \in Nat : Told(r, code)
<1>1. CASE UNCHANGED vars
  BY <1>1 DEF vars
<1>2. CASE DriverDies
  BY <1>2 DEF DriverDies
<1>3. ASSUME NEW r \in Requests, NEW kind, NEW callback, NEW mode, NEW keys,
             Request(r, kind, callback, mode, keys)
      PROVE  Begins(r) /\ \E x : req' = [req EXCEPT ![r] = x]
  <2>1. r \in DOMAIN req
    BY DEF ReportsTyped
  <2>2. QED
    BY <1>3, <2>1 DEF Request, Begins, NoRequest
<1>4. ASSUME NEW r \in Requests, NEW status \in HdfStatus, NEW info \in ExecutorInfos, Returns(r, status, info)
      PROVE  /\ req[r].pc # "none" /\ req'[r].pc # "none" /\ req'[r].kind = req[r].kind
             /\ \A q \in Requests \ {r} : req'[q] = req[q]
             /\ UNCHANGED <<asked, sent, told, report, vibrations>>
  BY <1>4 DEF Returns, ReportsTyped
<1>5. ASSUME NEW r \in Requests, NEW what \in Whats, NEW code \in Nat, Reports(r, what, code)
      PROVE  \E x \in Report : ReportArrives(r, x)
  <2> DEFINE x == [what |-> what, code |-> code]
  <2>1. x \in Report /\ x.what = what /\ x.code = code
    BY DEF Report
  <2>2. ReportArrives(r, x)
    BY <1>5 DEF Reports, ReportArrives
  <2>3. QED
    BY <2>1, <2>2
<1>6. ASSUME NEW r \in Requests, OnResult(r) \/ OnTip(r) \/ OnMessage(r)
      PROVE  report[r].pc # "none" /\ \E code \in Nat : Told(r, code)
  <2>1. report[r].code \in Nat /\ LastSent(r)
    BY DEF ReportsTyped, UnderWay, AllLastSent
  <2>2. ConvertResultCode(report[r].code) \in Nat
    BY <2>1, CodesConverted
  <2>3. report[r].what \in Whats
    BY <1>6 DEF OnResult, OnTip, OnMessage, Whats
  <2>4. report[r].pc # "none"
    BY <2>1, <2>3 DEF LastSent, Whats
  <2>5. \E code \in Nat : Told(r, code)
    BY <1>6, <2>1, <2>2, <2>3 DEF OnResult, OnTip, OnMessage, Told
  <2>6. QED
    BY <2>4, <2>5
<1>7. Codes \subseteq Nat
  BY ExecutorAssumption
<1>8. CASE Next
  BY <1>2, <1>3, <1>4, <1>5, <1>6, <1>7, <1>8 DEF Next, Whats
<1>9. QED
  BY <1>1, <1>8

(* A sequence grows at its end.                                            *)
LEMMA AppendReport ==
    ASSUME NEW s \in Seq(Report), NEW x \in Report
    PROVE  /\ Append(s, x) \in Seq(Report) /\ Len(Append(s, x)) = Len(s) + 1 /\ Len(s) \in Nat
           /\ \A i \in 1..Len(s) : Append(s, x)[i] = s[i]
           /\ Append(s, x)[Len(s) + 1] = x
BY AppendProperties, LenProperties

LEMMA ReportsTypedStep == ASSUME ReportsTyped, AllLastSent, [Next]_vars PROVE ReportsTyped'
<1>1. CASE UNCHANGED <<req, asked, sent, told, report, vibrations>>
  BY <1>1 DEF ReportsTyped
<1>2. ASSUME NEW r \in Requests, Begins(r), \E x : req' = [req EXCEPT ![r] = x] PROVE ReportsTyped'
  BY <1>2 DEF Begins, ReportsTyped
<1>3. ASSUME NEW r \in Requests, NEW status \in HdfStatus, NEW info \in ExecutorInfos, Returns(r, status, info)
      PROVE  ReportsTyped'
  BY <1>3 DEF Returns, ReportsTyped
<1>4. ASSUME NEW r \in Requests, NEW x \in Report, ReportArrives(r, x) PROVE ReportsTyped'
  <2>1. sent[r] \in Seq(Report) /\ Append(sent[r], x) \in Seq(Report)
    BY AppendReport DEF ReportsTyped
  <2>2. [pc |-> "called", what |-> x.what, code |-> x.code] \in UnderWay
    BY DEF Report, UnderWay
  <2>3. QED
    BY <1>4, <2>1, <2>2 DEF ReportArrives, ReportsTyped
<1>5. ASSUME NEW r \in Requests, DoVibrator(r) PROVE ReportsTyped'
  <2>1. report[r] \in UnderWay /\ vibrations[r] \in Nat
    BY DEF ReportsTyped
  <2>2. [report[r] EXCEPT !.pc = "tell"] \in UnderWay /\ vibrations[r] + 1 \in Nat
    BY <2>1 DEF UnderWay
  <2>3. report' \in [Requests -> UnderWay]
    BY <1>5, <2>2 DEF DoVibrator, ReportsTyped
  <2>4. vibrations' \in [Requests -> Nat]
    BY <1>5, <2>2 DEF DoVibrator, ReportsTyped
  <2>5. QED
    BY <1>5, <2>3, <2>4 DEF DoVibrator, ReportsTyped
<1>6. ASSUME NEW r \in Requests, NEW code \in Nat, Told(r, code) PROVE ReportsTyped'
  <2>1. [what |-> report[r].what, code |-> code] \in Report
    BY <1>6 DEF Told, Report
  <2>2. told[r] \in Seq(Report) /\ Append(told[r], [what |-> report[r].what, code |-> code]) \in Seq(Report)
    BY <2>1, AppendReport DEF ReportsTyped
  <2>3. NoReport \in UnderWay
    BY DEF NoReport, UnderWay
  <2>4. QED
    BY <1>6, <2>2, <2>3 DEF Told, Tells, ReportsTyped
<1>7. QED
  BY <1>1, <1>2, <1>3, <1>4, <1>5, <1>6, ExecutorSteps

(* What a step does to the reports of one request q, seen from q alone.    *)
LEMMA RequestMoves ==
    ASSUME ReportsTyped, AllLastSent, [Next]_vars, NEW q \in Requests
    PROVE  \/ /\ sent'[q] = sent[q] /\ told'[q] = told[q] /\ report'[q] = report[q] /\ vibrations'[q] = vibrations[q]
              /\ \/ (q \in asked' <=> q \in asked) /\ req'[q].kind = req[q].kind
                    /\ (req'[q].pc = "none" <=> req[q].pc = "none")
                 \/ req[q].pc = "none" /\ req'[q].pc # "none"
           \/ /\ q \in asked /\ q \in asked' /\ req'[q] = req[q]
              /\ \/ /\ report[q].pc = "none" /\ told'[q] = told[q] /\ vibrations'[q] = vibrations[q]
                    /\ \E x \in Report :
                          /\ sent'[q] = Append(sent[q], x)
                          /\ report'[q] = [pc |-> "called", what |-> x.what, code |-> x.code]
                 \/ /\ report[q].pc = "called" /\ report[q].what = "result"
                    /\ report'[q] = [report[q] EXCEPT !.pc = "tell"]
                    /\ sent'[q] = sent[q] /\ told'[q] = told[q]
                    /\ vibrations'[q] \in {vibrations[q], vibrations[q] + 1}
                    /\ req[q].kind = "Authenticate" /\ report[q].code \in {FAIL, OPERATION_NOT_SUPPORT}
                 \/ /\ report[q].pc # "none" /\ report'[q] = NoReport
                    /\ sent'[q] = sent[q] /\ vibrations'[q] = vibrations[q]
                    /\ \E code \in Nat :
                          /\ told'[q] = Append(told[q], [what |-> report[q].what, code |-> code])
                          /\ report[q].what \in Whats
                          /\ report[q].what = "result" => (code = SUCCESS <=> report[q].code = SUCCESS)
<1>1. LastSent(q) /\ report[q] \in UnderWay /\ report[q].code \in Nat
  BY DEF AllLastSent, ReportsTyped, UnderWay
<1>2. CASE UNCHANGED <<req, asked, sent, told, report, vibrations>>
  BY <1>2
<1>3. ASSUME NEW r \in Requests, Begins(r), NEW x, req' = [req EXCEPT ![r] = x]
      PROVE  /\ sent' = sent /\ told' = told /\ report' = report /\ vibrations' = vibrations
             /\ \/ (q \in asked' <=> q \in asked) /\ req'[q] = req[q]
                \/ req[q].pc = "none" /\ req'[q].pc # "none"
  <2>1. CASE q = r
    BY <1>3, <2>1 DEF Begins
  <2>2. CASE q # r
    BY <1>3, <2>2 DEF Begins, ReportsTyped
  <2>3. QED
    BY <1>3, <2>1, <2>2 DEF Begins
<1>4. ASSUME NEW r \in Requests, req[r].pc # "none", req'[r].pc # "none", req'[r].kind = req[r].kind,
             \A p \in Requests \ {r} : req'[p] = req[p], UNCHANGED <<asked, sent, told, report, vibrations>>
      PROVE  /\ sent' = sent /\ told' = told /\ report' = report /\ vibrations' = vibrations /\ asked' = asked
             /\ req'[q].kind = req[q].kind /\ (req'[q].pc = "none" <=> req[q].pc = "none")
  <2>1. CASE q = r
    BY <1>4, <2>1
  <2>2. CASE q # r
    BY <1>4, <2>2
  <2>3. QED
    BY <2>1, <2>2
<1>5. ASSUME NEW r \in Requests, NEW x \in Report, ReportArrives(r, x), r # q
      PROVE  /\ sent'[q] = sent[q] /\ told'[q] = told[q] /\ report'[q] = report[q] /\ vibrations'[q] = vibrations[q]
             /\ asked' = asked /\ req' = req
  BY <1>5 DEF ReportArrives, ReportsTyped
<1>6. ASSUME NEW x \in Report, ReportArrives(q, x)
      PROVE  /\ q \in asked /\ asked' = asked /\ req' = req
             /\ report[q].pc = "none" /\ told' = told /\ vibrations' = vibrations
             /\ sent'[q] = Append(sent[q], x)
             /\ report'[q] = [pc |-> "called", what |-> x.what, code |-> x.code]
  BY <1>6 DEF ReportArrives, ReportsTyped
<1>7. ASSUME NEW r \in Requests, DoVibrator(r), r # q
      PROVE  /\ sent'[q] = sent[q] /\ told'[q] = told[q] /\ report'[q] = report[q] /\ vibrations'[q] = vibrations[q]
             /\ asked' = asked /\ req' = req
  BY <1>7 DEF DoVibrator, ReportsTyped
<1>8. ASSUME DoVibrator(q)
      PROVE  /\ q \in asked /\ asked' = asked /\ req' = req
             /\ report[q].pc = "called" /\ report[q].what = "result"
             /\ report'[q] = [report[q] EXCEPT !.pc = "tell"]
             /\ sent' = sent /\ told' = told
             /\ vibrations'[q] \in {vibrations[q], vibrations[q] + 1}
             /\ req[q].kind = "Authenticate" /\ report[q].code \in {FAIL, OPERATION_NOT_SUPPORT}
  <2>1. report[q].pc = "called" /\ ConvertResultCode(report[q].code) = FAIL
    BY <1>8 DEF DoVibrator
  <2>2. report[q].code \in {FAIL, OPERATION_NOT_SUPPORT}
    BY <1>1, <2>1, CodesConverted
  <2>3. q \in asked
    BY <1>1, <2>1 DEF LastSent
  <2>4. QED
    BY <1>8, <2>2, <2>3 DEF DoVibrator, ReportsTyped
<1>9. ASSUME NEW r \in Requests, NEW code \in Nat, Told(r, code), r # q
      PROVE  /\ sent'[q] = sent[q] /\ told'[q] = told[q] /\ report'[q] = report[q] /\ vibrations'[q] = vibrations[q]
             /\ asked' = asked /\ req' = req
  BY <1>9 DEF Told, Tells, ReportsTyped
<1>10. ASSUME NEW code \in Nat, Told(q, code), report[q].pc # "none"
       PROVE  /\ q \in asked /\ asked' = asked /\ req' = req
              /\ report'[q] = NoReport /\ sent' = sent /\ vibrations' = vibrations
              /\ told'[q] = Append(told[q], [what |-> report[q].what, code |-> code])
              /\ report[q].what \in Whats
              /\ report[q].what = "result" => (code = SUCCESS <=> report[q].code = SUCCESS)
  <2>1. q \in asked
    BY <1>1, <1>10 DEF LastSent
  <2>2. report[q].what = "result" => (code = SUCCESS <=> report[q].code = SUCCESS)
    BY <1>1, <1>10, CodesConverted DEF Told
  <2>3. QED
    BY <1>10, <2>1, <2>2 DEF Told, Tells, ReportsTyped
<1>11. QED
  <2>1. CASE \E r \in Requests : Begins(r) /\ \E x : req' = [req EXCEPT ![r] = x]
    BY <1>3, <2>1
  <2>2. CASE \E r \in Requests : /\ req[r].pc # "none" /\ req'[r].pc # "none" /\ req'[r].kind = req[r].kind
                                 /\ \A p \in Requests \ {r} : req'[p] = req[p]
                                 /\ UNCHANGED <<asked, sent, told, report, vibrations>>
    BY <1>4, <2>2
  <2>3. CASE \E r \in Requests : \E x \in Report : ReportArrives(r, x)
    BY <1>5, <1>6, <2>3
  <2>4. CASE \E r \in Requests : DoVibrator(r)
    BY <1>7, <1>8, <2>4
  <2>5. CASE \E r \in Requests : report[r].pc # "none" /\ \E code \in Nat : Told(r, code)
    BY <1>9, <1>10, <2>5
  <2>6. QED
    BY <1>2, <2>1, <2>2, <2>3, <2>4, <2>5, ExecutorSteps

-------------------------------------------------------------------------------
(* What the framework is told.                                             *)
LEMMA LastSentStep == ASSUME ReportsTyped, AllLastSent, [Next]_vars PROVE AllLastSent'
<1> SUFFICES ASSUME NEW q \in Requests PROVE LastSent(q)'
  BY DEF AllLastSent
<1>1. LastSent(q) /\ report[q] \in UnderWay /\ sent[q] \in Seq(Report)
  BY DEF AllLastSent, ReportsTyped
<1>2. CASE /\ sent'[q] = sent[q] /\ report'[q] = report[q]
           /\ \/ (q \in asked' <=> q \in asked) /\ (req'[q].pc = "none" <=> req[q].pc = "none")
              \/ req[q].pc = "none" /\ req'[q].pc # "none"
  BY <1>1, <1>2 DEF LastSent
<1>3. ASSUME q \in asked, q \in asked', req'[q] = req[q], NEW x \in Report,
             sent'[q] = Append(sent[q], x), report'[q] = [pc |-> "called", what |-> x.what, code |-> x.code]
      PROVE  LastSent(q)'
  <2>1. x = [what |-> x.what, code |-> x.code]
    BY DEF Report
  <2>2. Len(sent'[q]) > 0 /\ sent'[q][Len(sent'[q])] = x
    BY <1>1, <1>3, AppendReport
  <2>3. report'[q].pc = "called" /\ report'[q].what = x.what /\ report'[q].code = x.code
    BY <1>3
  <2>4. QED
    BY <1>1, <1>3, <2>1, <2>2, <2>3 DEF LastSent
<1>4. CASE /\ q \in asked /\ q \in asked' /\ req'[q] = req[q] /\ report[q].pc = "called"
           /\ report'[q] = [report[q] EXCEPT !.pc = "tell"] /\ sent'[q] = sent[q]
  <2>1. report'[q].pc = "tell" /\ report'[q].what = report[q].what /\ report'[q].code = report[q].code
    BY <1>1, <1>4 DEF UnderWay
  <2>2. QED
    BY <1>1, <1>4, <2>1 DEF LastSent
<1>5. CASE q \in asked /\ q \in asked' /\ req'[q] = req[q] /\ report'[q] = NoReport
  BY <1>1, <1>5 DEF LastSent, NoReport
<1>6. QED
  BY <1>2, <1>3, <1>4, <1>5, RequestMoves

LEMMA FaithfulStep ==
    ASSUME ReportsTyped, AllLastSent, NEW q \in Requests, Faithful(q), [Next]_vars
    PROVE  Faithful(q)'
<1>1. /\ LastSent(q) /\ report[q] \in UnderWay /\ sent[q] \in Seq(Report) /\ told[q] \in Seq(Report)
      /\ Len(sent[q]) \in Nat /\ Len(told[q]) \in Nat
  BY LenProperties DEF AllLastSent, ReportsTyped
<1>2. CASE sent'[q] = sent[q] /\ told'[q] = told[q] /\ report'[q] = report[q]
  BY <1>2 DEF Faithful
<1>3. ASSUME report[q].pc = "none", told'[q] = told[q], NEW x \in Report,
             sent'[q] = Append(sent[q], x), report'[q] = [pc |-> "called", what |-> x.what, code |-> x.code]
      PROVE  Faithful(q)'
  <2>1. report'[q].pc # "none"
    BY <1>3
  <2>2. Len(sent'[q]) = Len(sent[q]) + 1 /\ \A i \in 1..Len(sent[q]) : sent'[q][i] = sent[q][i]
    BY <1>1, <1>3, AppendReport
  <2>3. Len(told[q]) = Len(sent[q])
    BY <1>1, <1>3 DEF Faithful
  <2>4. QED
    BY <1>1, <1>3, <2>1, <2>2, <2>3 DEF Faithful
<1>4. CASE /\ report[q].pc = "called" /\ report'[q] = [report[q] EXCEPT !.pc = "tell"]
           /\ sent'[q] = sent[q] /\ told'[q] = told[q]
  <2>1. report'[q].pc = "tell"
    BY <1>1, <1>4 DEF UnderWay
  <2>2. QED
    BY <1>4, <2>1 DEF Faithful
<1>5. ASSUME report[q].pc # "none", report'[q] = NoReport, sent'[q] = sent[q], NEW code \in Nat,
             told'[q] = Append(told[q], [what |-> report[q].what, code |-> code]), report[q].what \in Whats,
             report[q].what = "result" => (code = SUCCESS <=> report[q].code = SUCCESS)
      PROVE  Faithful(q)'
  <2> DEFINE x == [what |-> report[q].what, code |-> code]
             n == Len(told[q])
  <2>1. x \in Report /\ x.what = report[q].what /\ x.code = code
    BY <1>5 DEF Report
  <2>2. /\ Len(told'[q]) = n + 1 /\ told'[q][n + 1] = x
        /\ \A i \in 1..n : told'[q][i] = told[q][i]
    BY <1>1, <1>5, <2>1, AppendReport
  <2>3. Len(sent[q]) = n + 1
    BY <1>1, <1>5 DEF Faithful
  <2>4. sent[q][n + 1].what = report[q].what /\ sent[q][n + 1].code = report[q].code
    BY <1>1, <1>5, <2>3 DEF LastSent
  <2>5. report'[q].pc = "none"
    BY <1>5 DEF NoReport
  <2>6. n \in Nat
    BY <1>1
  <2>7. \A i \in 1..n : /\ told[q][i].what = sent[q][i].what
                        /\ told[q][i].what = "result" => (told[q][i].code = SUCCESS <=> sent[q][i].code = SUCCESS)
    BY DEF Faithful
  <2> HIDE DEF n, x
  <2>8. ASSUME NEW i \in 1..Len(told'[q])
        PROVE  /\ told'[q][i].what = sent'[q][i].what
               /\ told'[q][i].what = "result" => (told'[q][i].code = SUCCESS <=> sent'[q][i].code = SUCCESS)
    <3>1. i \in 1..n \/ i = n + 1
      BY <2>2, <2>6
    <3>2. CASE i \in 1..n
      BY <1>5, <2>2, <2>7, <3>2
    <3>3. CASE i = n + 1
      BY <1>5, <2>1, <2>2, <2>4, <3>3
    <3>4. QED
      BY <3>1, <3>2, <3>3
  <2>9. Len(told'[q]) = Len(sent'[q]) - 0
    BY <1>1, <1>5, <2>2, <2>3
  <2>10. QED
    BY <2>5, <2>8, <2>9 DEF Faithful
<1>6. QED
  BY <1>2, <1>3, <1>4, <1>5, RequestMoves

LEMMA ToldInvInit == Init => ToldInv
<1> SUFFICES ASSUME Init PROVE ToldInv
  OBVIOUS
<1>1. <<>> \in Seq(Report) /\ NoReport \in UnderWay /\ Len(<<>>) = 0
  BY DEF NoReport, UnderWay
<1>2. ReportsTyped
  BY <1>1 DEF Init, ReportsTyped
<1>3. ASSUME NEW r \in Requests PROVE LastSent(r) /\ Faithful(r)
  BY <1>1 DEF Init, LastSent, Faithful, NoReport
<1>4. QED
  BY <1>2, <1>3 DEF ToldInv, AllLastSent

LEMMA ToldInvStep == ToldInv /\ [Next]_vars => ToldInv'
BY ReportsTypedStep, LastSentStep, FaithfulStep DEF ToldInv

(* Whatever the driver reports, and whenever it dies, the framework is     *)
(* told of every report but the one under way, once and in order, and of a *)
(* success exactly when the driver reported one.                           *)
THEOREM ToldCorrect == Spec => []ToldFaithfully
<1>1. ToldInv => ToldFaithfully
  <2>1. ASSUME ToldInv, NEW r \in Requests PROVE DOMAIN told[r] = 1..Len(told[r])
    BY <2>1, LenProperties DEF ToldInv, ReportsTyped
  <2>2. QED
    BY <2>1 DEF ToldInv, Faithful, ToldFaithfully
<1>2. QED
  BY <1>1, ToldInvInit, ToldInvStep, PTL DEF Spec

-------------------------------------------------------------------------------
(* The vibrator.  A vibration is for a report that is the framework's      *)
(* already, or for the one that is about to be.                            *)
Fails(r, i) ==
    req[r].kind = "Authenticate" /\ sent[r][i].what = "result" /\ sent[r][i].code \in {FAIL, OPERATION_NOT_SUPPORT}
Failures(r, n) == {i \in 1..n : Fails(r, i)}
Vibrated(r) ==
    /\ vibrations[r] <= Cardinality(Failures(r, Len(told[r]))) + (IF report[r].pc = "tell" THEN 1 ELSE 0)
    /\ report[r].pc = "tell" => Fails(r, Len(told[r]) + 1)

LEMMA FailuresFinite ==
    ASSUME NEW r \in Requests, NEW n \in Nat
    PROVE  /\ IsFiniteSet(Failures(r, n)) /\ Cardinality(Failures(r, n)) \in Nat
           /\ IsFiniteSet(Failures(r, n + 1)) /\ Cardinality(Failures(r, n + 1)) \in Nat
           /\ Cardinality(Failures(r, n)) <= Cardinality(Failures(r, n + 1))
           /\ Fails(r, n + 1) => Cardinality(Failures(r, n + 1)) = Cardinality(Failures(r, n)) + 1
<1>1. Failures(r, n) \subseteq 1..n /\ Failures(r, n + 1) \subseteq 1..(n + 1)
  BY DEF Failures
<1>2. IsFiniteSet(Failures(r, n)) /\ IsFiniteSet(Failures(r, n + 1))
  <2>1. IsFiniteSet(1..n) /\ IsFiniteSet(1..(n + 1))
    BY FS_Interval
  <2>2. QED
    BY <1>1, <2>1, FS_Subset
<1>3. Failures(r, n) \subseteq Failures(r, n + 1) /\ n + 1 \notin Failures(r, n)
  BY DEF Failures
<1>4. Fails(r, n + 1) => Failures(r, n + 1) = Failures(r, n) \cup {n + 1}
  BY DEF Failures
<1>5. /\ Cardinality(Failures(r, n)) \in Nat /\ Cardinality(Failures(r, n + 1)) \in Nat
      /\ Cardinality(Failures(r, n)) <= Cardinality(Failures(r, n + 1))
  BY <1>2, <1>3, FS_CardinalityType, FS_Subset
<1>6. Fails(r, n + 1) => Cardinality(Failures(r, n + 1)) = Cardinality(Failures(r, n)) + 1
  BY <1>2, <1>3, <1>4, FS_AddElement
<1>7. QED
  BY <1>2, <1>5, <1>6

LEMMA VibratedStep ==
    ASSUME ToldInv, NEW q \in Requests, Vibrated(q), [Next]_vars
    PROVE  Vibrated(q)'
<1>1. /\ ReportsTyped /\ AllLastSent /\ LastSent(q) /\ Faithful(q)
      /\ report[q] \in UnderWay /\ sent[q] \in Seq(Report) /\ told[q] \in Seq(Report)
      /\ Len(sent[q]) \in Nat /\ Len(told[q]) \in Nat /\ vibrations[q] \in Nat
  BY LenProperties DEF ToldInv, AllLastSent, ReportsTyped
<1>2. PICK n \in Nat : n = Len(told[q])
  BY <1>1
<1>3. Cardinality(Failures(q, n)) \in Nat
  BY FailuresFinite
<1>4. CASE /\ sent'[q] = sent[q] /\ told'[q] = told[q] /\ report'[q] = report[q] /\ vibrations'[q] = vibrations[q]
           /\ req'[q].kind = req[q].kind
  <2>1. \A i \in Nat : Fails(q, i)' <=> Fails(q, i)
    BY <1>4 DEF Fails
  <2>2. Failures(q, n)' = Failures(q, n)
    BY <2>1 DEF Failures
  <2>3. QED
    BY <1>1, <1>2, <1>4, <2>1, <2>2 DEF Vibrated
<1>5. CASE /\ sent'[q] = sent[q] /\ told'[q] = told[q] /\ report'[q] = report[q] /\ vibrations'[q] = vibrations[q]
           /\ req[q].pc = "none"
  <2>1. sent[q] = <<>> /\ report[q].pc = "none" /\ n = 0
    BY <1>1, <1>2, <1>5 DEF LastSent, Faithful
  <2>2. Failures(q, n) = {} /\ Failures(q, n)' = {}
    BY <2>1 DEF Failures
  <2>3. QED
    BY <1>2, <1>5, <2>1, <2>2 DEF Vibrated
<1>6. ASSUME req'[q] = req[q], report[q].pc = "none", told'[q] = told[q], vibrations'[q] = vibrations[q],
             NEW x \in Report,
             sent'[q] = Append(sent[q], x), report'[q] = [pc |-> "called", what |-> x.what, code |-> x.code]
      PROVE  Vibrated(q)'
  <2>1. n = Len(sent[q])
    BY <1>1, <1>2, <1>6 DEF Faithful
  <2>2. \A i \in 1..n : sent'[q][i] = sent[q][i]
    BY <1>1, <1>6, <2>1, AppendReport
  <2>3. Failures(q, n)' = Failures(q, n)
    BY <1>6, <2>2 DEF Failures, Fails
  <2>4. report'[q].pc = "called"
    BY <1>6
  <2>5. QED
    BY <1>2, <1>6, <2>3, <2>4 DEF Vibrated
<1>7. CASE /\ req'[q] = req[q] /\ report[q].pc = "called" /\ report[q].what = "result"
           /\ report'[q] = [report[q] EXCEPT !.pc = "tell"] /\ sent'[q] = sent[q] /\ told'[q] = told[q]
           /\ vibrations'[q] \in {vibrations[q], vibrations[q] + 1}
           /\ req[q].kind = "Authenticate" /\ report[q].code \in {FAIL, OPERATION_NOT_SUPPORT}
  <2>1. report'[q].pc = "tell"
    BY <1>1, <1>7 DEF UnderWay
  <2>2. Len(sent[q]) = n + 1 /\ sent[q][n + 1].what = "result" /\ sent[q][n + 1].code = report[q].code
    BY <1>1, <1>2, <1>7 DEF Faithful, LastSent
  <2>3. Fails(q, n + 1)' /\ Failures(q, n)' = Failures(q, n)
    BY <1>7, <2>2 DEF Fails, Failures
  <2>4. vibrations[q] <= Cardinality(Failures(q, n))
    BY <1>1, <1>2, <1>3, <1>7 DEF Vibrated
  <2>5. vibrations'[q] <= Cardinality(Failures(q, n)) + 1
    BY <1>1, <1>3, <1>7, <2>4
  <2>6. QED
    BY <1>2, <1>7, <2>1, <2>3, <2>5 DEF Vibrated
<1>8. ASSUME req'[q] = req[q], report[q].pc # "none", report'[q] = NoReport, sent'[q] = sent[q],
             vibrations'[q] = vibrations[q], NEW code \in Nat,
             told'[q] = Append(told[q], [what |-> report[q].what, code |-> code]), report[q].what \in Whats
      PROVE  Vibrated(q)'
  <2>1. [what |-> report[q].what, code |-> code] \in Report
    BY <1>8 DEF Report
  <2>2. Len(told'[q]) = n + 1 /\ report'[q].pc = "none"
    BY <1>1, <1>2, <1>8, <2>1, AppendReport DEF NoReport
  <2>3. Failures(q, n + 1)' = Failures(q, n + 1)
    BY <1>8 DEF Failures, Fails
  <2>4. vibrations[q] <= Cardinality(Failures(q, n + 1))
    <3>1. CASE report[q].pc = "tell"
      BY <1>1, <1>2, <1>3, <3>1, FailuresFinite DEF Vibrated
    <3>2. CASE report[q].pc # "tell"
      <4>1. vibrations[q] <= Cardinality(Failures(q, n))
        BY <1>1, <1>2, <1>3, <3>2 DEF Vibrated
      <4>2. Cardinality(Failures(q, n)) <= Cardinality(Failures(q, n + 1)) /\ Cardinality(Failures(q, n + 1)) \in Nat
        BY FailuresFinite
      <4>3. QED
        BY <1>1, <1>3, <4>1, <4>2
    <3>3. QED
      BY <3>1, <3>2
  <2>5. Cardinality(Failures(q, n + 1)) \in Nat
    BY FailuresFinite
  <2>6. QED
    BY <1>8, <2>2, <2>3, <2>4, <2>5 DEF Vibrated
<1>9. QED
  BY <1>1, <1>4, <1>5, <1>6, <1>7, <1>8, RequestMoves

(* Only a result by which an authentication failed makes the phone         *)
(* vibrate, and each at most once, however many reports of whatever kind   *)
(* a driver sends.                                                         *)
THEOREM VibratesCorrect == Spec => []VibratesForFailure
<1> DEFINE AllVibrated == \A r \in Requests : Vibrated(r)
<1>1. Init => AllVibrated
  <2>1. SUFFICES ASSUME Init, NEW r \in Requests PROVE Vibrated(r)
    OBVIOUS
  <2>2. vibrations[r] = 0 /\ report[r].pc = "none" /\ Len(told[r]) = 0
    BY <2>1 DEF Init, NoReport
  <2>3. Cardinality(Failures(r, 0)) \in Nat
    BY FailuresFinite
  <2>4. QED
    BY <2>2, <2>3 DEF Vibrated
<1>2. ToldInv /\ AllVibrated /\ [Next]_vars => AllVibrated'
  BY VibratedStep
<1>3. ToldInv /\ AllVibrated => VibratesForFailure
  <2> SUFFICES ASSUME ToldInv, NEW r \in Requests, Vibrated(r)
               PROVE  vibrations[r] <= Cardinality({i \in DOMAIN sent[r] : Fails(r, i)})
    BY DEF VibratesForFailure, Fails
  <2>1. /\ ReportsTyped /\ Faithful(r) /\ sent[r] \in Seq(Report) /\ Len(sent[r]) \in Nat /\ told[r] \in Seq(Report)
        /\ Len(told[r]) \in Nat /\ vibrations[r] \in Nat /\ DOMAIN sent[r] = 1..Len(sent[r])
    BY LenProperties DEF ToldInv, ReportsTyped
  <2>2. {i \in DOMAIN sent[r] : Fails(r, i)} = Failures(r, Len(sent[r]))
    BY <2>1 DEF Failures
  <2>3. PICK n \in Nat : n = Len(told[r])
    BY <2>1
  <2> DEFINE C(k) == Cardinality(Failures(r, k))
  <2>4. /\ C(n) \in Nat /\ C(n + 1) \in Nat /\ C(n) <= C(n + 1)
        /\ Fails(r, n + 1) => C(n + 1) = C(n) + 1
    BY FailuresFinite
  <2>5. /\ vibrations[r] <= C(n) + (IF report[r].pc = "tell" THEN 1 ELSE 0)
        /\ report[r].pc = "tell" => Fails(r, n + 1)
    BY <2>3 DEF Vibrated
  <2> HIDE DEF C
  <2>6. CASE report[r].pc = "none"
    <3>1. Len(sent[r]) = n
      BY <2>1, <2>3, <2>6 DEF Faithful
    <3>2. vibrations[r] <= C(n)
      BY <2>1, <2>6, <2>4, <2>5
    <3>3. QED
      BY <2>2, <3>1, <3>2 DEF C
  <2>7. CASE report[r].pc # "none"
    <3>1. Len(sent[r]) = n + 1
      BY <2>1, <2>3, <2>7 DEF Faithful
    <3>2. vibrations[r] <= C(n + 1)
      BY <2>1, <2>4, <2>5
    <3>3. QED
      BY <2>2, <3>1, <3>2 DEF C
  <2>8. QED
    BY <2>6, <2>7
<1>4. QED
  BY <1>1, <1>2, <1>3, ToldInvInit, ToldInvStep, PTL DEF Spec

-------------------------------------------------------------------------------
(* The conversion of the keys.  The library's induction takes an operator, *)
(* so an induction here is about the least number for which a claim fails. *)
LEMMA LeastNumber ==
    ASSUME NEW T, T \subseteq Nat, T # {}
    PROVE  \E x \in T : \A y \in T : x <= y
<1>1. PICK x \in T : \A y \in T : ~(<<y, x>> \in OpToRel(<, Nat))
  BY NatLessThanWellFounded, WFMin
<1>2. ASSUME NEW y \in T PROVE x <= y
  <2>1. ~(y < x)
    BY <1>1 DEF OpToRel
  <2>2. QED
    BY <2>1
<1>3. QED
  BY <1>2

Nothing == [ok |-> TRUE, types |-> <<>>]
IsFold(keys, m, f) == f = [n \in 0..m |-> IF n = 0 THEN Nothing ELSE ConvertKey(f[n - 1], keys[n])]

(* The loop over the first m keys, for every m.                            *)
LEMMA FoldExists ==
    ASSUME NEW keys, NEW m \in Nat
    PROVE  \E f : IsFold(keys, m, f)
<1> DEFINE T == {k \in Nat : ~\E f : IsFold(keys, k, f)}
<1>1. SUFFICES ASSUME T # {} PROVE FALSE
  OBVIOUS
<1>2. PICK k \in T : \A y \in T : k <= y
  BY <1>1, LeastNumber
<1>3. CASE k = 0
  <2> DEFINE f == [n \in 0..0 |-> Nothing]
  <2>1. f = [n \in 0..0 |-> IF n = 0 THEN Nothing ELSE ConvertKey(f[n - 1], keys[n])]
    OBVIOUS
  <2>2. IsFold(keys, 0, f)
    BY <2>1 DEF IsFold
  <2>3. QED
    BY <1>3, <2>2
<1>4. CASE k # 0
  <2>1. k - 1 \in Nat /\ k - 1 \notin T /\ k \in Nat
    BY <1>2, <1>4
  <2>2. PICK g : IsFold(keys, k - 1, g)
    BY <2>1
  <2> DEFINE f == [n \in 0..k |-> IF n = k THEN ConvertKey(g[k - 1], keys[k]) ELSE g[n]]
  <2>3. \A n \in 0..(k - 1) : g[n] = IF n = 0 THEN Nothing ELSE ConvertKey(g[n - 1], keys[n])
    BY <2>2 DEF IsFold
  <2>4. ASSUME NEW n \in 0..k PROVE f[n] = IF n = 0 THEN Nothing ELSE ConvertKey(f[n - 1], keys[n])
    <3>1. CASE n = k
      BY <2>1, <3>1
    <3>2. CASE n # k
      BY <2>1, <2>3, <3>2
    <3>3. QED
      BY <3>1, <3>2
  <2>5. f = [n \in 0..k |-> IF n = 0 THEN Nothing ELSE ConvertKey(f[n - 1], keys[n])]
    <3> HIDE DEF f
    <3>1. f = [n \in 0..k |-> f[n]]
      BY DEF f
    <3>2. QED
      BY <2>4, <3>1
  <2>6. IsFold(keys, k, f)
    BY <2>5 DEF IsFold
  <2>7. QED
    BY <1>2, <2>6
<1>5. QED
  BY <1>3, <1>4

LEMMA PropertyTypesFold ==
    ASSUME NEW keys \in Seq(STRING)
    PROVE  \E f : IsFold(keys, Len(keys), f) /\ PropertyTypes(keys) = f[Len(keys)]
<1> DEFINE F == CHOOSE f : IsFold(keys, Len(keys), f)
<1>1. IsFold(keys, Len(keys), F)
  BY FoldExists, LenProperties
<1>2. PropertyTypes(keys) = F[Len(keys)]
  BY DEF PropertyTypes, IsFold, Nothing
<1>3. QED
  BY <1>1, <1>2

TypeNames == {"AUTH_SUB_TYPE", "LOCKOUT_DURATION", "REMAIN_ATTEMPTS", "ENROLL_PROGRESS", "SENSOR_INFO"}

(* The keys among the first n that the driver is asked for, and what the   *)
(* loop has made of them.                                                  *)
WantedUpTo(keys, n) == {i \in Wanted(keys) : i <= n}
Known(keys, n) == \A i \in WantedUpTo(keys, n) : keys[i] \in DOMAIN PropertyType
Converted(keys, n, acc) ==
    /\ acc \in [ok : BOOLEAN, types : Seq(TypeNames)]
    /\ acc.ok <=> Known(keys, n)
    /\ acc.ok => /\ Len(acc.types) = Cardinality(WantedUpTo(keys, n))
                 /\ \A i \in WantedUpTo(keys, n) : acc.types[Rank(i, Wanted(keys))] = PropertyType[keys[i]]

LEMMA WantedGrows ==
    ASSUME NEW keys \in Seq(STRING), NEW n \in Nat, n + 1 <= Len(keys)
    PROVE  LET W == WantedUpTo(keys, n)
           IN  /\ IsFiniteSet(W) /\ Cardinality(W) \in Nat
               /\ \A i \in W : i \in 1..n /\ Rank(i, Wanted(keys)) \in 1..Cardinality(W)
               /\ keys[n + 1] = "ATTR_CAMERA_STATUS" => WantedUpTo(keys, n + 1) = W
               /\ keys[n + 1] # "ATTR_CAMERA_STATUS" =>
                     /\ WantedUpTo(keys, n + 1) = W \cup {n + 1}
                     /\ Cardinality(WantedUpTo(keys, n + 1)) = Cardinality(W) + 1
                     /\ Rank(n + 1, Wanted(keys)) = Cardinality(W) + 1
<1> DEFINE W == WantedUpTo(keys, n)
<1>1. DOMAIN keys = 1..Len(keys) /\ Len(keys) \in Nat
  BY LenProperties
<1>2. Wanted(keys) \subseteq 1..Len(keys) /\ W \subseteq 1..n /\ n + 1 \notin W
  BY <1>1 DEF Wanted, WantedUpTo
<1>3. IsFiniteSet(W) /\ Cardinality(W) \in Nat
  <2>1. IsFiniteSet(1..n)
    BY FS_Interval
  <2>2. IsFiniteSet(W)
    BY <1>2, <2>1, FS_Subset
  <2>3. QED
    BY <2>2, FS_CardinalityType
<1>4. ASSUME NEW i \in W PROVE i \in 1..n /\ Rank(i, Wanted(keys)) \in 1..Cardinality(W)
  <2> DEFINE R == {j \in Wanted(keys) : j <= i}
  <2>1. R \subseteq W /\ i \in R /\ i \in 1..n
    BY <1>1, <1>2 DEF WantedUpTo
  <2>2. IsFiniteSet(R) /\ Cardinality(R) <= Cardinality(W)
    BY <1>3, <2>1, FS_Subset
  <2>3. Cardinality(R) \in Nat /\ Cardinality(R) # 0
    BY <2>1, <2>2, FS_CardinalityType, FS_EmptySet
  <2>4. QED
    BY <1>3, <2>1, <2>2, <2>3 DEF Rank
<1>5. CASE keys[n + 1] = "ATTR_CAMERA_STATUS"
  <2>1. n + 1 \notin Wanted(keys)
    BY <1>5 DEF Wanted
  <2>2. WantedUpTo(keys, n + 1) = W
    BY <1>2, <2>1 DEF WantedUpTo
  <2>3. QED
    BY <1>3, <1>4, <1>5, <2>2
<1>6. CASE keys[n + 1] # "ATTR_CAMERA_STATUS"
  <2>1. n + 1 \in Wanted(keys)
    BY <1>1, <1>6 DEF Wanted
  <2>2. WantedUpTo(keys, n + 1) = W \cup {n + 1}
    BY <1>2, <2>1 DEF WantedUpTo
  <2>3. Cardinality(WantedUpTo(keys, n + 1)) = Cardinality(W) + 1
    BY <1>2, <1>3, <2>2, FS_AddElement
  <2>4. Rank(n + 1, Wanted(keys)) = Cardinality(W) + 1
    BY <2>3 DEF Rank, WantedUpTo
  <2>5. QED
    BY <1>3, <1>4, <1>6, <2>2, <2>3, <2>4
<1>7. QED
  BY <1>5, <1>6

LEMMA TypesAreNames == \A key \in DOMAIN PropertyType : PropertyType[key] \in TypeNames
<1> SUFFICES ASSUME NEW key \in DOMAIN PropertyType PROVE PropertyType[key] \in TypeNames
  OBVIOUS
<1>1. key \in {"ATTR_PIN_SUB_TYPE", "ATTR_FREEZING_TIME", "ATTR_REMAIN_TIMES", "ATTR_ENROLL_PROGRESS", "ATTR_SENSOR_INFO"}
  BY Zenon DEF PropertyType
<1>2. /\ PropertyType["ATTR_PIN_SUB_TYPE"] = "AUTH_SUB_TYPE"
      /\ PropertyType["ATTR_FREEZING_TIME"] = "LOCKOUT_DURATION"
      /\ PropertyType["ATTR_REMAIN_TIMES"] = "REMAIN_ATTEMPTS"
      /\ PropertyType["ATTR_ENROLL_PROGRESS"] = "ENROLL_PROGRESS"
      /\ PropertyType["ATTR_SENSOR_INFO"] = "SENSOR_INFO"
  BY DEF PropertyType
<1>3. QED
  BY Zenon, <1>1, <1>2 DEF TypeNames

LEMMA KeyConverted ==
    ASSUME NEW keys \in Seq(STRING), NEW n \in Nat, n + 1 <= Len(keys), NEW acc, Converted(keys, n, acc)
    PROVE  Converted(keys, n + 1, ConvertKey(acc, keys[n + 1]))
<1> DEFINE W == WantedUpTo(keys, n)
           key == keys[n + 1]
           next == ConvertKey(acc, key)
<1>1. acc \in [ok : BOOLEAN, types : Seq(TypeNames)]
  BY DEF Converted
<1>2. CASE key = "ATTR_CAMERA_STATUS"
  <2>1. next = acc /\ WantedUpTo(keys, n + 1) = W
    BY <1>2, WantedGrows DEF ConvertKey
  <2>2. QED
    BY <2>1 DEF Converted, Known
<1>3. CASE key # "ATTR_CAMERA_STATUS"
  <2>1. /\ WantedUpTo(keys, n + 1) = W \cup {n + 1}
        /\ Cardinality(WantedUpTo(keys, n + 1)) = Cardinality(W) + 1
        /\ Rank(n + 1, Wanted(keys)) = Cardinality(W) + 1
        /\ Cardinality(W) \in Nat
        /\ \A i \in W : Rank(i, Wanted(keys)) \in 1..Cardinality(W)
    BY <1>3, WantedGrows
  <2>2. CASE ~acc.ok
    <3>1. next = acc /\ ~Known(keys, n + 1)
      BY <2>1, <2>2 DEF ConvertKey, Converted, Known
    <3>2. QED
      BY <1>1, <2>2, <3>1 DEF Converted
  <2>3. CASE acc.ok /\ key \in DOMAIN PropertyType
    <3> DEFINE p == PropertyType[key]
    <3>1. p \in TypeNames
      BY <2>3, TypesAreNames
    <3> HIDE DEF p
    <3>2. next = [acc EXCEPT !.types = Append(@, p)]
      BY <1>3, <2>3 DEF ConvertKey, p
    <3> HIDE DEF next
    <3>3. /\ next.ok = acc.ok /\ next.types = Append(acc.types, p)
          /\ next \in [ok : BOOLEAN, types : Seq(TypeNames)]
      <4>1. Append(acc.types, p) \in Seq(TypeNames)
        BY <1>1, <3>1, AppendProperties
      <4>2. QED
        BY <1>1, <3>2, <4>1
    <3>4. /\ Len(next.types) = Len(acc.types) + 1
          /\ \A i \in 1..Len(acc.types) : next.types[i] = acc.types[i]
          /\ next.types[Len(acc.types) + 1] = p
      BY <1>1, <3>1, <3>3, AppendProperties
    <3>5. Len(acc.types) = Cardinality(W) /\ \A i \in W : acc.types[Rank(i, Wanted(keys))] = PropertyType[keys[i]]
      BY <2>3 DEF Converted
    <3>6. Known(keys, n + 1)
      BY <2>1, <2>3 DEF Converted, Known
    <3> USE DEF p
    <3>7. ASSUME NEW i \in WantedUpTo(keys, n + 1)
          PROVE  next.types[Rank(i, Wanted(keys))] = PropertyType[keys[i]]
      <4>1. CASE i \in W
        BY <2>1, <3>4, <3>5, <4>1
      <4>2. CASE i = n + 1
        BY <2>1, <3>4, <3>5, <4>2
      <4>3. QED
        BY <2>1, <4>1, <4>2
    <3> HIDE DEF next, W
    <3>8. Converted(keys, n + 1, next)
      BY <2>1, <2>3, <3>3, <3>4, <3>5, <3>6, <3>7 DEF Converted
    <3>9. QED
      BY <3>8 DEF next
  <2>4. CASE acc.ok /\ key \notin DOMAIN PropertyType
    <3>1. next = [acc EXCEPT !.ok = FALSE]
      BY <1>3, <2>4 DEF ConvertKey
    <3>2. next.ok = FALSE /\ next \in [ok : BOOLEAN, types : Seq(TypeNames)]
      BY <1>1, <3>1
    <3>3. ~Known(keys, n + 1)
      BY <2>1, <2>4 DEF Known
    <3>4. QED
      BY <3>2, <3>3 DEF Converted
  <2>5. QED
    BY <2>2, <2>3, <2>4
<1>4. QED
  BY <1>2, <1>3

(* The conversion fails exactly when a key has no type, and otherwise has  *)
(* the types of all keys but the camera's, in order.                       *)
LEMMA TypesConverted ==
    ASSUME NEW keys \in Seq(STRING)
    PROVE  Converted(keys, Len(keys), PropertyTypes(keys))
<1>1. Len(keys) \in Nat
  BY LenProperties
<1>2. PICK f : IsFold(keys, Len(keys), f) /\ PropertyTypes(keys) = f[Len(keys)]
  BY PropertyTypesFold
<1>3. \A n \in 0..Len(keys) : f[n] = IF n = 0 THEN Nothing ELSE ConvertKey(f[n - 1], keys[n])
  BY <1>2 DEF IsFold
<1> DEFINE T == {n \in 0..Len(keys) : ~Converted(keys, n, f[n])}
<1>4. SUFFICES T = {}
  BY <1>1, <1>2
<1>5. SUFFICES ASSUME T # {} PROVE FALSE
  OBVIOUS
<1>6. PICK k \in T : \A y \in T : k <= y
  <2>1. T \subseteq Nat
    OBVIOUS
  <2> HIDE DEF T
  <2>2. QED
    BY <1>5, <2>1, LeastNumber
<1>7. CASE k = 0
  <2>1. f[0] = Nothing
    BY <1>1, <1>3
  <2>2. DOMAIN keys = 1..Len(keys)
    BY LenProperties
  <2>3. WantedUpTo(keys, 0) = {}
    BY <2>2 DEF WantedUpTo, Wanted
  <2>4. Nothing \in [ok : BOOLEAN, types : Seq(TypeNames)] /\ Len(Nothing.types) = 0 /\ Nothing.ok
    BY DEF Nothing
  <2>5. Converted(keys, 0, Nothing)
    BY <2>3, <2>4, FS_EmptySet DEF Converted, Known
  <2>6. QED
    BY <1>6, <1>7, <2>1, <2>5
<1>8. CASE k # 0
  <2>1. k \in 1..Len(keys) /\ k - 1 \in Nat /\ k - 1 \in 0..Len(keys) /\ (k - 1) + 1 = k /\ k - 1 \notin T
    BY <1>1, <1>6, <1>8
  <2>2. Converted(keys, k - 1, f[k - 1])
    BY <2>1
  <2>3. f[k] = ConvertKey(f[k - 1], keys[k])
    BY <1>3, <2>1
  <2>4. Converted(keys, (k - 1) + 1, ConvertKey(f[k - 1], keys[(k - 1) + 1]))
    BY <2>1, <2>2, KeyConverted
  <2>5. QED
    BY <1>6, <2>1, <2>3, <2>4
<1>9. QED
  BY <1>7, <1>8

(* A request for properties has either been refused, or has the types.     *)
KeysAsked(r) ==
    req[r].kind = "GetProperty" =>
        /\ req[r].keys \in Seq(STRING)
        /\ req[r].pc \in {"driver", "returned"}
        /\ req[r].camera => req[r].result = SUCCESS
        /\ PropertyTypes(req[r].keys).ok => req[r].types = PropertyTypes(req[r].keys).types
        /\ ~PropertyTypes(req[r].keys).ok => req[r].pc = "returned" /\ req[r].result # SUCCESS
Shaped(x) ==
    x = [pc |-> x.pc, kind |-> x.kind, mode |-> x.mode, keys |-> x.keys, types |-> x.types,
         camera |-> x.camera, result |-> x.result]
AllAsked == DOMAIN req = Requests /\ \A r \in Requests : Shaped(req[r]) /\ KeysAsked(r)

LEMMA AllAskedStep == ASSUME AllAsked, [Next]_vars PROVE AllAsked'
<1>1. CASE UNCHANGED req
  BY <1>1 DEF AllAsked, KeysAsked, Shaped
<1>2. ASSUME NEW r \in Requests, NEW kind \in Kinds, NEW callback \in BOOLEAN, NEW mode, NEW keys \in Seq(STRING),
             Request(r, kind, callback, mode, keys)
      PROVE  AllAsked'
  <2> DEFINE refusal == Refusal(kind, callback, mode, keys)
             this == [NoRequest EXCEPT !.kind = kind, !.mode = mode, !.keys = keys]
  <2>1. PICK x : /\ req' = [req EXCEPT ![r] = x]
                 /\ \/ refusal # SUCCESS /\ x = [this EXCEPT !.pc = "returned", !.result = refusal]
                    \/ refusal = SUCCESS /\ x = [this EXCEPT !.pc = "driver", !.mode = ConvertCommandId(mode),
                                                             !.types = PropertyTypes(keys).types]
    BY <1>2 DEF Request
  <2>2. Shaped(x) /\ x.kind = kind /\ x.keys = keys /\ x.camera = FALSE /\ x.pc \in {"driver", "returned"}
    BY <2>1 DEF NoRequest, Shaped
  <2>3. /\ refusal # SUCCESS => x.pc = "returned" /\ x.result = refusal
        /\ refusal = SUCCESS => x.types = PropertyTypes(keys).types
    BY <2>1 DEF NoRequest
  <2>4. kind = "GetProperty" => (refusal = SUCCESS <=> PropertyTypes(keys).ok)
    BY DEF Refusal, CallbackKinds, SUCCESS, GENERAL_ERROR
  <2>5. DOMAIN req' = Requests /\ req'[r] = x /\ \A q \in Requests \ {r} : req'[q] = req[q]
    BY <2>1 DEF AllAsked
  <2>6. KeysAsked(r)'
    BY <2>2, <2>3, <2>4, <2>5 DEF KeysAsked
  <2>7. ASSUME NEW q \in Requests \ {r} PROVE KeysAsked(q)' /\ Shaped(req'[q])
    BY <2>5 DEF AllAsked, KeysAsked
  <2>8. QED
    BY <2>2, <2>5, <2>6, <2>7 DEF AllAsked
<1>3. ASSUME NEW r \in Requests, NEW status \in HdfStatus, NEW info \in ExecutorInfos, Returns(r, status, info)
      PROVE  AllAsked'
  <2>1. PICK result, camera :
              /\ req' = [req EXCEPT ![r].pc = "returned", ![r].result = result, ![r].camera = camera]
              /\ camera => result = SUCCESS
    BY <1>3 DEF Returns
  <2>2. Shaped(req[r]) /\ KeysAsked(r) /\ req[r].pc = "driver"
    BY <1>3 DEF AllAsked, Returns
  <2>3. /\ DOMAIN req' = Requests /\ \A q \in Requests \ {r} : req'[q] = req[q]
        /\ req'[r] = [[[req[r] EXCEPT !.pc = "returned"] EXCEPT !.result = result] EXCEPT !.camera = camera]
    BY <2>1 DEF AllAsked
  <2>4. /\ Shaped(req'[r]) /\ req'[r].kind = req[r].kind /\ req'[r].keys = req[r].keys
        /\ req'[r].types = req[r].types /\ req'[r].pc = "returned"
        /\ req'[r].result = result /\ req'[r].camera = camera
    BY <2>2, <2>3 DEF Shaped
  <2>5. KeysAsked(r)'
    BY <2>1, <2>2, <2>4 DEF KeysAsked
  <2>6. ASSUME NEW q \in Requests \ {r} PROVE KeysAsked(q)' /\ Shaped(req'[q])
    BY <2>3 DEF AllAsked, KeysAsked
  <2>7. QED
    BY <2>3, <2>4, <2>5, <2>6 DEF AllAsked
<1>4. KeyLists \subseteq Seq(STRING) /\ <<>> \in Seq(STRING)
  BY ExecutorAssumption, EmptySeq
<1>5. ASSUME NEW r \in Requests,
             \/ \E what, code : Reports(r, what, code)
             \/ DoVibrator(r) \/ OnResult(r) \/ OnTip(r) \/ OnMessage(r)
      PROVE  UNCHANGED req
  BY <1>5 DEF Reports, DoVibrator, OnResult, OnTip, OnMessage, Tells
<1>6. CASE Next
  <2>1. CASE DriverDies
    BY <1>1, <2>1 DEF DriverDies
  <2>2. ASSUME NEW r \in Requests, NEW kind \in Kinds, NEW callback \in BOOLEAN,
               NEW mode \in IF kind = "SendCommand" THEN Modes ELSE {"none"},
               NEW keys \in IF kind = "GetProperty" THEN KeyLists ELSE {<<>>},
               Request(r, kind, callback, mode, keys)
        PROVE  AllAsked'
    <3>1. keys \in Seq(STRING)
      BY <1>4
    <3>2. QED
      BY <1>2, <2>2, <3>1
  <2>3. QED
    BY <1>1, <1>3, <1>5, <1>6, <2>1, <2>2 DEF Next
<1>7. CASE UNCHANGED vars
  BY <1>1, <1>7 DEF vars
<1>8. QED
  BY <1>6, <1>7

(* Whatever list of keys the framework asks for, of any length, the driver *)
(* is asked for the types of all keys but the camera's, once each and in   *)
(* the order of the list; a list with a key that has no type is an error   *)
(* however many keys before it were converted.                             *)
THEOREM PropertiesCorrect == Spec => []PropertiesAsked
<1>1. Init => AllAsked
  <2>1. SUFFICES ASSUME Init PROVE AllAsked
    OBVIOUS
  <2>2. QED
    BY <2>1 DEF Init, AllAsked, NoRequest, Shaped, KeysAsked
<1>2. AllAsked => PropertiesAsked
  <2>1. SUFFICES ASSUME AllAsked, NEW r \in Requests, req[r].kind = "GetProperty"
                 PROVE  LET keys == req[r].keys
                            all == \A i \in Wanted(keys) : keys[i] \in DOMAIN PropertyType
                        IN  /\ all => /\ Len(req[r].types) = Cardinality(Wanted(keys))
                                      /\ \A i \in Wanted(keys) :
                                            req[r].types[Rank(i, Wanted(keys))] = PropertyType[keys[i]]
                            /\ req[r].camera => req[r].result = SUCCESS
                            /\ ~all => req[r].result # SUCCESS
    BY DEF PropertiesAsked
  <2> DEFINE keys == req[r].keys
  <2>2. KeysAsked(r) /\ keys \in Seq(STRING)
    BY <2>1 DEF AllAsked, KeysAsked
  <2>3. Converted(keys, Len(keys), PropertyTypes(keys))
    BY <2>2, TypesConverted
  <2>4. WantedUpTo(keys, Len(keys)) = Wanted(keys)
    <3>1. DOMAIN keys = 1..Len(keys) /\ Len(keys) \in Nat
      BY <2>2, LenProperties
    <3>2. QED
      BY <3>1 DEF WantedUpTo, Wanted
  <2> HIDE DEF keys
  <2>5. /\ PropertyTypes(keys).ok <=> \A i \in Wanted(keys) : keys[i] \in DOMAIN PropertyType
        /\ PropertyTypes(keys).ok =>
              /\ Len(PropertyTypes(keys).types) = Cardinality(Wanted(keys))
              /\ \A i \in Wanted(keys) : PropertyTypes(keys).types[Rank(i, Wanted(keys))] = PropertyType[keys[i]]
    BY <2>3, <2>4 DEF Converted, Known
  <2>6. QED
    BY <2>1, <2>2, <2>5 DEF KeysAsked, keys
<1>3. QED
  BY <1>1, <1>2, AllAskedStep, PTL DEF Spec
===============================================================================
