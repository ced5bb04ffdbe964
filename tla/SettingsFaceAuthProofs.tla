------------------------ MODULE SettingsFaceAuthProofs ------------------------
(***************************************************************************)
(* Proofs about SettingsFaceAuth, for any numbers of starts, PIN           *)
(* authentications, visits of the enrolling page and deletions.            *)
(***************************************************************************)
EXTENDS SettingsFaceAuth, SequenceTheorems, TLAPS

(* What the proofs use of the constants.                                   *)
LEMMA Bounds == MaxLaunches \in Nat /\ MaxClicks \in Nat /\ MaxVisits \in Nat /\ MaxDeletes \in Nat
BY SettingsAssumption

-------------------------------------------------------------------------------
(* The router's stack.                                                     *)

(* The pages below the one that is left.                                   *)
LEMMA PopPage ==
    ASSUME stack \in Seq(Pages), Len(stack) > 1
    PROVE  /\ SubSeq(stack, 1, Len(stack) - 1) \in Seq(Pages)
           /\ SubSeq(stack, 1, Len(stack) - 1) # <<>>
<1> DEFINE q == SubSeq(stack, 1, Len(stack) - 1)
<1>1. Len(stack) \in Nat /\ \A i \in 1..Len(stack) - 1 : stack[i] \in Pages
  BY LenProperties, ElementOfSeq
<1>2. q \in Seq(Pages) /\ Len(q) = Len(stack) - 1
  <2>1. 1 \in Int /\ Len(stack) - 1 \in Int
    BY <1>1
  <2>2. q \in Seq(Pages) /\ Len(q) = IF 1 <= Len(stack) - 1 THEN Len(stack) - 1 - 1 + 1 ELSE 0
    BY <1>1, <2>1, SubSeqProperties
  <2>3. QED
    BY <1>1, <2>2
<1> HIDE DEF q
<1>3. Len(q) # 0
  BY <1>1, <1>2
<1>4. q # <<>>
  BY <1>3
<1>5. QED
  BY <1>2, <1>4 DEF q

(* Another page in the place of the one shown.                             *)
LEMMA SwapPage ==
    ASSUME stack \in Seq(Pages), stack # <<>>, NEW page \in Pages
    PROVE  /\ [stack EXCEPT ![Len(stack)] = page] \in Seq(Pages)
           /\ [stack EXCEPT ![Len(stack)] = page] # <<>>
           /\ Len([stack EXCEPT ![Len(stack)] = page]) = Len(stack)
           /\ [stack EXCEPT ![Len(stack)] = page][Len(stack)] = page
<1>1. Len(stack) \in Nat /\ Len(stack) \in 1..Len(stack)
  BY EmptySeq
<1> DEFINE q == [stack EXCEPT ![Len(stack)] = page]
<1>2. q \in Seq(Pages) /\ Len(q) = Len(stack) /\ q[Len(stack)] = page
  BY <1>1, ExceptSeq
<1> HIDE DEF q
<1>3. q # <<>>
  BY <1>1, <1>2
<1>4. QED
  BY <1>2, <1>3 DEF q

(* One more page on top.                                                   *)
LEMMA PushPage ==
    ASSUME stack \in Seq(Pages), NEW page \in Pages
    PROVE  /\ Append(stack, page) \in Seq(Pages)
           /\ Append(stack, page) # <<>>
           /\ Len(Append(stack, page)) = Len(stack) + 1
           /\ Append(stack, page)[Len(stack) + 1] = page
<1>1. /\ Append(stack, page) \in Seq(Pages) /\ Len(Append(stack, page)) = Len(stack) + 1
      /\ Append(stack, page)[Len(stack) + 1] = page /\ Len(stack) \in Nat
  BY AppendProperties, LenProperties
<1>2. QED
  BY <1>1

-------------------------------------------------------------------------------
(* Types.                                                                  *)

(* A PIN authentication that is answered starts at most one timer.         *)
PinsCounted == pin + expiry <= clicks

SettingsInv == TypeOK /\ PinsCounted

(* The parts of the type invariant that change together.                   *)
AbilityType ==
    /\ ability \in {"off", "on", "leaving"} /\ launches \in 0..MaxLaunches
    /\ stack \in Seq(Pages) /\ (ability = "off") = (stack = <<>>)
    /\ session \in BOOLEAN /\ confirmed \in BOOLEAN
PinType == clicks \in 0..MaxClicks /\ pin \in 0..clicks /\ expiry \in 0..clicks /\ PinsCounted
IdmType == faces \in 0..1 /\ faceNum \in 0..2 /\ query \in BOOLEAN /\ credId \in BOOLEAN
SurfaceType ==
    /\ visit \in 0..MaxVisits /\ surfaceId \in 0..visit /\ loaded \in BOOLEAN
    /\ shown \in 0..visit /\ swallowed \in BOOLEAN
EnrolType ==
    enrolling \in BOOLEAN /\ add \in Nat /\ processing \in {"none", "success", "fail"} /\ button \in BOOLEAN
DeleteType == del \in 0..MaxDeletes /\ timer \in 0..MaxDeletes

LEMMA TypeParts ==
    SettingsInv <=> AbilityType /\ PinType /\ IdmType /\ SurfaceType /\ EnrolType /\ DeleteType
BY DEF SettingsInv, TypeOK, AbilityType, PinType, IdmType, SurfaceType, EnrolType, DeleteType

LEMMA PartsUnchanged ==
    /\ AbilityType /\ UNCHANGED abilityVars => AbilityType'
    /\ PinType /\ UNCHANGED pinVars => PinType'
    /\ IdmType /\ UNCHANGED idmVars => IdmType'
    /\ SurfaceType /\ UNCHANGED <<pageVars, surfaceVars>> => SurfaceType'
    /\ EnrolType /\ UNCHANGED enrolVars => EnrolType'
    /\ DeleteType /\ UNCHANGED deleteVars => DeleteType'
BY DEF AbilityType, PinType, PinsCounted, IdmType, SurfaceType, EnrolType, DeleteType,
       abilityVars, pinVars, idmVars, pageVars, surfaceVars, enrolVars, deleteVars

(* What setSurfaceId does to the surface the service has.                  *)
LEMMA SetSurfaceType ==
    ASSUME SurfaceType, UNCHANGED pageVars,
           \/ UNCHANGED surfaceVars
           \/ PageHides
           \/ SetSurfaceId(0)
           \/ \E id \in 0..visit : SetSurfaceId(id)
    PROVE  SurfaceType'
<1>1. 0 \in 0..visit
  BY DEF SurfaceType
<1>2. QED
  BY <1>1, Bounds DEF SurfaceType, PageHides, SetSurfaceId, pageVars, surfaceVars

(* The router and terminateSelf keep the ability and its pages in step.    *)
LEMMA RouterType ==
    ASSUME AbilityType
    PROVE  /\ TerminateAbility /\ UNCHANGED <<stack, launches>> => AbilityType'
           /\ RouteBack => AbilityType'
           /\ \A page \in Pages : Replace(page) /\ UNCHANGED <<ability, launches, session>> => AbilityType'
<1>1. ASSUME TerminateAbility, UNCHANGED <<stack, launches>> PROVE AbilityType'
  BY <1>1 DEF AbilityType, TerminateAbility
<1>2. ASSUME RouteBack PROVE AbilityType'
  <2>1. CASE Len(stack) > 1
    <3>1. stack' \in Seq(Pages) /\ stack' # <<>>
      BY <1>2, <2>1, PopPage DEF RouteBack, AbilityType
    <3>2. stack # <<>>
      BY <2>1
    <3>3. QED
      BY <1>2, <2>1, <3>1, <3>2 DEF RouteBack, AbilityType
  <2>2. CASE ~(Len(stack) > 1)
    BY <1>1, <1>2, <2>2 DEF RouteBack
  <2>3. QED
    BY <2>1, <2>2
<1>3. ASSUME NEW page \in Pages, Replace(page), UNCHANGED <<ability, launches, session>> PROVE AbilityType'
  <2>1. CASE stack = <<>>
    BY <1>3, <2>1 DEF Replace, AbilityType
  <2>2. CASE stack # <<>>
    BY <1>3, <2>2, SwapPage DEF Replace, AbilityType
  <2>3. QED
    BY <2>1, <2>2
<1>4. QED
  BY <1>1, <1>2, <1>3

(* startEnroll begins at most one more enrolment.                          *)
LEMMA StartEnrollType ==
    ASSUME SurfaceType, UNCHANGED pageVars, EnrolType, NEW id \in 0..visit, StartEnroll(id)
    PROVE  SurfaceType' /\ enrolling' \in BOOLEAN /\ add' \in Nat
<1>1. UNCHANGED surfaceVars \/ SetSurfaceId(id)
  BY DEF StartEnroll, surfaceVars
<1>2. SurfaceType'
  BY <1>1, SetSurfaceType
<1>3. enrolling' \in BOOLEAN
  BY DEF StartEnroll, EnrolType
<1>4. add' \in Nat
  BY DEF StartEnroll, EnrolType
<1>5. QED
  BY <1>2, <1>3, <1>4

LEMMA SettingsInit == Init => SettingsInv
<1> SUFFICES ASSUME Init PROVE SettingsInv
  OBVIOUS
<1>1. AbilityType
  <2>1. session \in BOOLEAN /\ confirmed \in BOOLEAN /\ ability = "off" /\ stack = <<>>
    BY DEF Init
  <2>2. launches \in 0..MaxLaunches /\ stack \in Seq(Pages)
    BY Bounds, EmptySeq DEF Init
  <2>3. QED
    BY <2>1, <2>2 DEF AbilityType
<1>2. PinType /\ DeleteType /\ visit \in 0..MaxVisits /\ surfaceId \in 0..visit /\ shown \in 0..visit
  BY Bounds DEF Init, PinType, PinsCounted, DeleteType
<1>3. IdmType
  <2>1. query \in BOOLEAN /\ credId \in BOOLEAN
    BY DEF Init
  <2>2. faces \in 0..1 /\ faceNum \in 0..2
    BY DEF Init
  <2>3. QED
    BY <2>1, <2>2 DEF IdmType
<1>4. EnrolType /\ loaded \in BOOLEAN /\ swallowed \in BOOLEAN
  BY DEF Init, EnrolType
<1>5. QED
  BY <1>1, <1>2, <1>3, <1>4, TypeParts DEF SurfaceType

LEMMA SettingsTypeStep == SettingsInv /\ [Next]_vars => SettingsInv'
<1> SUFFICES ASSUME SettingsInv, [Next]_vars
             PROVE  AbilityType' /\ PinType' /\ IdmType' /\ SurfaceType' /\ EnrolType' /\ DeleteType'
  BY DEF SettingsInv, TypeOK, AbilityType, PinType, IdmType, SurfaceType, EnrolType, DeleteType
<1>1. AbilityType /\ PinType /\ IdmType /\ SurfaceType /\ EnrolType /\ DeleteType
  BY TypeParts
<1> USE <1>1, PartsUnchanged, Bounds
<1>2. CASE TenMinutes
  <2>1. AbilityType' /\ SurfaceType'
    BY <1>2, RouterType DEF TenMinutes
  <2>2. PinType'
    BY <1>2 DEF TenMinutes, PinType, PinsCounted
  <2>3. QED
    BY <1>2, <2>1, <2>2 DEF TenMinutes
<1>3. CASE ProcessResult
  <2>1. AbilityType' /\ SurfaceType'
    <3>1. CASE processing = "success"
      BY <1>3, <3>1, RouterType, SetSurfaceType DEF ProcessResult, Replace, Pages
    <3>2. CASE processing # "success"
      BY <1>3, <3>2 DEF ProcessResult, abilityVars
    <3>3. QED
      BY <3>1, <3>2
  <2>2. EnrolType'
    BY <1>3 DEF ProcessResult, EnrolType
  <2>3. QED
    BY <1>3, <2>1, <2>2 DEF ProcessResult
<1>4. CASE HalfSecond
  <2>1. AbilityType' /\ SurfaceType'
    BY <1>4, RouterType, SetSurfaceType DEF HalfSecond, RouteBack
  <2>2. DeleteType'
    BY <1>4 DEF HalfSecond, DeleteType
  <2>3. QED
    BY <1>4, <2>1, <2>2 DEF HalfSecond
<1>5. CASE PinAnswered
  <2>1. AbilityType' /\ SurfaceType'
    <3>1. CASE \E page \in {"enrollIntro", "faceConfig"} : Replace(page)
      BY <1>5, <3>1, RouterType, SetSurfaceType DEF PinAnswered, Replace, Pages
    <3>2. CASE UNCHANGED <<expiry, stack, surfaceVars, confirmed>>
      BY <1>5, <3>2 DEF PinAnswered, abilityVars
    <3>3. QED
      BY <1>5, <3>1, <3>2 DEF PinAnswered
  <2>2. PinType'
    BY <1>5 DEF PinAnswered, PinType, PinsCounted
  <2>3. QED
    BY <1>5, <2>1, <2>2 DEF PinAnswered
<1>6. CASE GotAuthInfo
  <2>1. IdmType'
    <3>1. query' \in BOOLEAN /\ credId' \in BOOLEAN
      BY <1>6 DEF GotAuthInfo
    <3>2. faces' \in 0..1 /\ faceNum' \in 0..2
      BY <1>6 DEF GotAuthInfo, IdmType
    <3>3. QED
      BY <3>1, <3>2 DEF IdmType
  <2>2. QED
    BY <1>6, <2>1 DEF GotAuthInfo
<1>7. CASE OnAcquire
  <2>1. EnrolType'
    BY <1>7 DEF OnAcquire, EnrolType
  <2>2. QED
    BY <1>7, <2>1 DEF OnAcquire
<1>8. CASE EnrollAnswered
  <2>1. EnrolType'
    <3>1. enrolling' \in BOOLEAN /\ button' \in BOOLEAN /\ processing' \in {"none", "success", "fail"}
      BY <1>8 DEF EnrollAnswered, EnrolType
    <3>2. add' \in Nat
      BY <1>8 DEF EnrollAnswered, EnrolType
    <3>3. QED
      BY <3>1, <3>2 DEF EnrolType
  <2>2. IdmType'
    <3>1. query' \in BOOLEAN /\ credId' \in BOOLEAN
      BY <1>8 DEF EnrollAnswered, IdmType
    <3>2. faces' \in 0..1 /\ faceNum' \in 0..2
      BY <1>8 DEF EnrollAnswered, IdmType
    <3>3. QED
      BY <3>1, <3>2 DEF IdmType
  <2>3. QED
    BY <1>8, <2>1, <2>2 DEF EnrollAnswered
<1>9. CASE DeleteAnswered
  <2>1. AbilityType' /\ SurfaceType'
    BY <1>9, RouterType, SetSurfaceType DEF DeleteAnswered, RouteBack
  <2>2. DeleteType' /\ IdmType'
    BY <1>9 DEF DeleteAnswered, DeleteType, IdmType
  <2>3. QED
    BY <1>9, <2>1, <2>2 DEF DeleteAnswered
<1>10. CASE Launch
  <2>1. AbilityType'
    BY <1>10 DEF Launch, AbilityType, Pages
  <2>2. IdmType'
    BY <1>10 DEF Launch, IdmType
  <2>3. QED
    BY <1>10, <2>1, <2>2 DEF Launch
<1>11. CASE OnBackground
  <2>1. AbilityType' /\ SurfaceType'
    BY <1>11, RouterType, SetSurfaceType DEF OnBackground
  <2>2. QED
    BY <1>11, <2>1 DEF OnBackground
<1>12. CASE BackPressed
  <2>1. AbilityType' /\ SurfaceType'
    BY <1>12, RouterType, SetSurfaceType DEF BackPressed, RouteBack
  <2>2. QED
    BY <1>12, <2>1 DEF BackPressed
<1>13. CASE DeclarationOpened
  <2>1. AbilityType'
    BY <1>13, PushPage DEF DeclarationOpened, AbilityType, Pages
  <2>2. QED
    BY <1>13, <2>1 DEF DeclarationOpened
<1>14. CASE DoPINAuth
  <2>1. AbilityType' /\ PinType'
    BY <1>14 DEF DoPINAuth, AbilityType, PinType, PinsCounted
  <2>2. QED
    BY <1>14, <2>1 DEF DoPINAuth
<1>15. CASE EnrollClicked
  <2>1. stack # <<>>
    BY <1>15 DEF EnrollClicked, Top
  <2>2. AbilityType'
    BY <1>15, <2>1, SwapPage DEF EnrollClicked, AbilityType, Pages
  <2>3. visit' \in 0..MaxVisits /\ 0..visit \subseteq 0..visit'
    BY <1>15 DEF EnrollClicked, SurfaceType
  <2>4. shown' \in 0..visit /\ swallowed' \in BOOLEAN
    BY <1>15 DEF EnrollClicked, StartEnroll, SetSurfaceId, surfaceVars, SurfaceType
  <2>5. SurfaceType'
    BY <1>15, <2>3, <2>4 DEF EnrollClicked, SurfaceType
  <2>6. EnrolType'
    <3>1. enrolling' \in BOOLEAN /\ button' \in BOOLEAN /\ processing' \in {"none", "success", "fail"}
      BY <1>15 DEF EnrollClicked, StartEnroll, EnrolType
    <3>2. add' \in Nat
      BY <1>15 DEF EnrollClicked, StartEnroll, EnrolType
    <3>3. QED
      BY <3>1, <3>2 DEF EnrolType
  <2>7. QED
    BY <1>15, <2>2, <2>5, <2>6 DEF EnrollClicked
<1>16. CASE TryAgain
  <2>1. SurfaceType' /\ EnrolType'
    BY <1>16, StartEnrollType DEF TryAgain, SurfaceType, EnrolType
  <2>2. QED
    BY <1>16, <2>1 DEF TryAgain
<1>17. CASE DeleteFace
  <2>1. AbilityType' /\ SurfaceType'
    <3>1. CASE credId
      BY <1>17, <3>1 DEF DeleteFace, AbilityType
    <3>2. CASE ~credId
      BY <1>17, <3>2, RouterType, SetSurfaceType DEF DeleteFace, RouteBack
    <3>3. QED
      BY <3>1, <3>2
  <2>2. DeleteType'
    BY <1>17 DEF DeleteFace, DeleteType
  <2>3. QED
    BY <1>17, <2>1, <2>2 DEF DeleteFace
<1>18. CASE OnDestroy
  <2>1. AbilityType' /\ SurfaceType'
    <3>1. AbilityType'
      <4>1. ability' = "off" /\ stack' = <<>> /\ session' \in BOOLEAN /\ confirmed' \in BOOLEAN
        BY <1>18 DEF OnDestroy
      <4>2. launches' \in 0..MaxLaunches /\ stack' \in Seq(Pages)
        BY <1>18, EmptySeq DEF OnDestroy, AbilityType
      <4>3. QED
        BY <4>1, <4>2 DEF AbilityType
    <3>2. SurfaceType'
      BY <1>18, SetSurfaceType DEF OnDestroy
    <3>3. QED
      BY <3>1, <3>2
  <2>2. QED
    BY <1>18, <2>1 DEF OnDestroy
<1>19. CASE OnLoad
  <2>1. visit \in 0..visit
    BY DEF SurfaceType
  <2>2. SurfaceType'
    <3>1. shown' \in 0..visit
      BY <1>19, <2>1 DEF OnLoad, StartEnroll, SetSurfaceId, surfaceVars, SurfaceType
    <3>2. swallowed' \in BOOLEAN
      BY <1>19 DEF OnLoad, StartEnroll, SetSurfaceId, surfaceVars, SurfaceType
    <3>3. QED
      BY <1>19, <2>1, <3>1, <3>2 DEF OnLoad, SurfaceType
  <2>3. EnrolType'
    <3>1. enrolling' \in BOOLEAN /\ button' \in BOOLEAN /\ processing' \in {"none", "success", "fail"}
      BY <1>19 DEF OnLoad, StartEnroll, EnrolType
    <3>2. add' \in Nat
      BY <1>19 DEF OnLoad, StartEnroll, EnrolType
    <3>3. QED
      BY <3>1, <3>2 DEF EnrolType
  <2>4. QED
    BY <1>19, <2>2, <2>3 DEF OnLoad
<1>20. CASE UNCHANGED vars
  BY <1>20 DEF vars
<1>21. QED
  BY <1>2, <1>3, <1>4, <1>5, <1>6, <1>7, <1>8, <1>9, <1>10, <1>11, <1>12, <1>13, <1>14, <1>15,
     <1>16, <1>17, <1>18, <1>19, <1>20 DEF Next, Timers, Answers, User

(* Every reachable state is well typed; in particular a page is shown as   *)
(* long as the ability runs, whatever is replaced and popped by timers and *)
(* answers that come late.                                                 *)
THEOREM SettingsTypeCorrect == Spec => []TypeOK
<1>1. SettingsInv => TypeOK
  BY DEF SettingsInv
<1>2. QED
  BY <1>1, SettingsInit, SettingsTypeStep, PTL DEF Spec

-------------------------------------------------------------------------------
(* Enrolments.                                                             *)

LEMMA StartEnrollOne ==
    ASSUME EnrolType, OneEnrolment, NEW id, StartEnroll(id), UNCHANGED processing
    PROVE  OneEnrolment'
<1>1. CASE enrolling' = enrolling /\ add' = add
  BY <1>1 DEF OneEnrolment
<1>2. CASE ~enrolling /\ enrolling' = TRUE /\ add' = add + 1
  <2>1. add = 0 /\ processing = "none"
    BY <1>2 DEF OneEnrolment, EnrolType
  <2>2. QED
    BY <1>2, <2>1 DEF OneEnrolment
<1>3. QED
  BY <1>1, <1>2 DEF StartEnroll

LEMMA OneEnrolmentStep == SettingsInv /\ OneEnrolment /\ [Next]_vars => OneEnrolment'
<1> SUFFICES ASSUME SettingsInv, OneEnrolment, [Next]_vars PROVE OneEnrolment'
  OBVIOUS
<1>1. EnrolType
  BY TypeParts
<1>2. CASE UNCHANGED <<enrolling, add, processing>>
  BY <1>2 DEF OneEnrolment
<1>3. CASE EnrollClicked \/ OnLoad \/ TryAgain
  BY <1>1, <1>3, StartEnrollOne DEF EnrollClicked, OnLoad, TryAgain
<1>4. CASE EnrollAnswered
  <2>1. add > 0 /\ add' = add - 1 /\ processing' \in {"success", "fail"} /\ enrolling' = enrolling
    BY <1>4 DEF EnrollAnswered
  <2>2. add = 1 /\ enrolling
    BY <1>1, <2>1 DEF OneEnrolment, EnrolType
  <2>3. QED
    BY <2>1, <2>2 DEF OneEnrolment
<1>5. CASE ProcessResult
  <2>1. processing # "none" /\ processing' = "none" /\ enrolling' = FALSE /\ add' = add
    BY <1>5 DEF ProcessResult
  <2>2. add = 0
    BY <1>1, <2>1 DEF OneEnrolment, EnrolType
  <2>3. QED
    BY <2>1, <2>2 DEF OneEnrolment
<1>6. CASE TenMinutes \/ HalfSecond \/ PinAnswered \/ GotAuthInfo \/ OnAcquire \/ DeleteAnswered
  BY <1>2, <1>6 DEF TenMinutes, HalfSecond, PinAnswered, GotAuthInfo, OnAcquire, DeleteAnswered, enrolVars
<1>7. CASE Launch \/ OnBackground \/ BackPressed \/ DeclarationOpened \/ DoPINAuth \/ DeleteFace \/ OnDestroy
  BY <1>2, <1>7 DEF Launch, OnBackground, BackPressed, DeclarationOpened, DoPINAuth, DeleteFace, OnDestroy, enrolVars
<1>8. CASE UNCHANGED vars
  BY <1>2, <1>8 DEF vars, enrolVars
<1>9. QED
  BY <1>3, <1>4, <1>5, <1>6, <1>7, <1>8 DEF Next, Timers, Answers, User

LEMMA OneEnrolmentInit == Init => OneEnrolment
BY DEF Init, OneEnrolment

(* However often the enrolling page is left and entered again, or the      *)
(* ability is started anew, while an enrolment is under way, no second one *)
(* is begun: EnrollingController.enrolling is set from addCredential to    *)
(* the end of processResult, and only then.                                *)
THEOREM OneEnrolmentCorrect == Spec => []OneEnrolment
BY SettingsInit, SettingsTypeStep, OneEnrolmentInit, OneEnrolmentStep, PTL DEF Spec

-------------------------------------------------------------------------------
(* The surface.                                                            *)

(* Hiding the enrolling page takes its surface away, or fails to.          *)
LEMMA HidingReleases ==
    ASSUME SurfaceReleased, PageHides
    PROVE  shown' = 0 \/ swallowed'
BY DEF SurfaceReleased, PageHides, SetSurfaceId, surfaceVars

LEMMA SurfaceReleasedStep == SettingsInv /\ SurfaceReleased /\ [Next]_vars => SurfaceReleased'
<1> SUFFICES ASSUME SettingsInv, SurfaceReleased, [Next]_vars, Top' # "enrolling" PROVE shown' = 0 \/ swallowed'
  BY DEF SurfaceReleased
<1>1. stack \in Seq(Pages) /\ (ability = "off") = (stack = <<>>)
  BY DEF SettingsInv, TypeOK
<1>2. CASE UNCHANGED <<stack, shown, swallowed>>
  BY <1>2 DEF SurfaceReleased, Top
<1>3. ASSUME NEW page, Replace(page) PROVE shown' = 0 \/ swallowed'
  BY <1>2, <1>3, HidingReleases DEF Replace, surfaceVars
<1>4. CASE RouteBack
  BY <1>2, <1>4, HidingReleases DEF RouteBack, surfaceVars
<1>5. CASE TenMinutes \/ GotAuthInfo \/ OnAcquire \/ EnrollAnswered \/ DoPINAuth
  BY <1>2, <1>5 DEF TenMinutes, GotAuthInfo, OnAcquire, EnrollAnswered, DoPINAuth, abilityVars, surfaceVars
<1>6. CASE ProcessResult
  BY <1>2, <1>3, <1>6 DEF ProcessResult, surfaceVars
<1>7. CASE HalfSecond \/ BackPressed
  BY <1>4, <1>7 DEF HalfSecond, BackPressed
<1>8. CASE PinAnswered
  BY <1>2, <1>3, <1>8 DEF PinAnswered, surfaceVars
<1>9. CASE DeleteAnswered
  BY <1>2, <1>4, <1>9 DEF DeleteAnswered, abilityVars, surfaceVars
<1>10. CASE DeleteFace
  BY <1>2, <1>4, <1>10 DEF DeleteFace, surfaceVars
<1>11. CASE Launch
  BY <1>1, <1>11 DEF Launch, SurfaceReleased, Top, surfaceVars
<1>12. CASE OnBackground
  BY <1>12, HidingReleases DEF OnBackground
<1>13. CASE DeclarationOpened
  BY <1>13 DEF DeclarationOpened, SurfaceReleased, surfaceVars
<1>14. CASE EnrollClicked
  <2>1. stack # <<>>
    BY <1>14 DEF EnrollClicked, Top
  <2>2. Top' = "enrolling"
    BY <1>1, <1>14, <2>1, SwapPage DEF EnrollClicked, Top, Pages
  <2>3. QED
    BY <2>2
<1>15. CASE OnLoad \/ TryAgain
  BY <1>15 DEF OnLoad, TryAgain, abilityVars, Top
<1>16. CASE OnDestroy
  BY <1>16 DEF OnDestroy, SetSurfaceId
<1>17. CASE UNCHANGED vars
  BY <1>2, <1>17 DEF vars, abilityVars, surfaceVars
<1>18. QED
  BY <1>5, <1>6, <1>7, <1>8, <1>9, <1>10, <1>11, <1>12, <1>13, <1>14, <1>15, <1>16, <1>17
  DEF Next, Timers, Answers, User

(* Whichever timer or answer takes the enrolling page away, its surface is *)
(* taken from the service, or the setSurfaceId that should have done it    *)
(* has failed and the application knows nothing of it.                     *)
THEOREM SurfaceReleasedCorrect == Spec => []SurfaceReleased
<1>1. Init => SurfaceReleased
  BY DEF Init, SurfaceReleased
<1>2. QED
  BY <1>1, SettingsInit, SettingsTypeStep, SurfaceReleasedStep, PTL DEF Spec

-------------------------------------------------------------------------------
(* The way on from the enrolling page.                                     *)

(* The enrolling page is never below another one, it has been visited, and *)
(* once it is loaded the application has its surface.                      *)
EnrollingOnTop ==
    /\ \A i \in 1..Len(stack) - 1 : stack[i] # "enrolling"
    /\ Top = "enrolling" => visit # 0 /\ (loaded => surfaceId # 0)

(* What a change of the router's pages leaves of that.                     *)
LEMMA RouterOnTop ==
    ASSUME SettingsInv, EnrollingOnTop, RouteBack \/ \E page \in Pages \ {"enrolling"} : Replace(page)
    PROVE  /\ \A i \in 1..Len(stack') - 1 : stack'[i] # "enrolling"
           /\ stack' = stack \/ Top' # "enrolling"
<1>1. stack \in Seq(Pages) /\ Len(stack) \in Nat
  BY DEF SettingsInv, TypeOK
<1>2. CASE stack' = stack
  BY <1>2 DEF EnrollingOnTop
<1>3. CASE Len(stack) > 1 /\ stack' = SubSeq(stack, 1, Len(stack) - 1)
  <2>1. 1 \in Int /\ Len(stack) - 1 \in Int /\ \A i \in 1..Len(stack) - 1 : stack[i] \in Pages
    BY <1>1, ElementOfSeq
  <2>2. /\ Len(stack') = Len(stack) - 1 - 1 + 1
        /\ \A i \in 1..Len(stack) - 1 - 1 + 1 : stack'[i] = stack[1 + i - 1]
    BY <1>1, <1>3, <2>1, SubSeqProperties
  <2>3. Len(stack') = Len(stack) - 1 /\ \A i \in 1..Len(stack) - 1 : stack'[i] = stack[i]
    BY <1>1, <2>2
  <2>4. \A i \in 1..Len(stack') : stack'[i] # "enrolling"
    BY <2>3 DEF EnrollingOnTop
  <2>5. Len(stack') \in 1..Len(stack')
    BY <1>1, <1>3, <2>3
  <2>6. Top' # "enrolling"
    BY <2>4, <2>5 DEF Top
  <2>7. QED
    BY <1>1, <2>3, <2>4, <2>6
<1>4. ASSUME NEW page \in Pages \ {"enrolling"}, stack # <<>>, stack' = [stack EXCEPT ![Len(stack)] = page]
      PROVE  (\A i \in 1..Len(stack') - 1 : stack'[i] # "enrolling") /\ Top' # "enrolling"
  <2>1. stack' # <<>> /\ Len(stack') = Len(stack) /\ stack'[Len(stack)] = page
    BY <1>1, <1>4, SwapPage
  <2>2. \A i \in 1..Len(stack) - 1 : stack'[i] = stack[i]
    BY <1>1, <1>4
  <2>3. QED
    BY <1>4, <2>1, <2>2 DEF EnrollingOnTop, Top
<1>5. QED
  BY <1>2, <1>3, <1>4 DEF RouteBack, Replace

GoesOnInv == EnrollingOnTop /\ EnrollingGoesOn

LEMMA GoesOnStep == SettingsInv /\ OneEnrolment /\ GoesOnInv /\ [Next]_vars => GoesOnInv'
<1> SUFFICES ASSUME SettingsInv, OneEnrolment, GoesOnInv, [Next]_vars PROVE GoesOnInv'
  OBVIOUS
<1>1. /\ EnrollingOnTop /\ EnrollingGoesOn
      /\ stack \in Seq(Pages) /\ Len(stack) \in Nat /\ add \in Nat /\ visit \in Nat /\ enrolling \in BOOLEAN
  BY Bounds DEF GoesOnInv, SettingsInv, TypeOK
(* The page stays, or one that is not the enrolling page takes its place.  *)
<1>2. ASSUME UNCHANGED pageVars, RouteBack \/ \E page \in Pages \ {"enrolling"} : Replace(page),
             Top' = "enrolling" /\ stack' = stack => (add' > 0 \/ processing' # "none" \/ button' \/ UNCHANGED enrolVars)
      PROVE  GoesOnInv'
  <2>1. /\ \A i \in 1..Len(stack') - 1 : stack'[i] # "enrolling"
        /\ stack' = stack \/ Top' # "enrolling"
    BY <1>1, <1>2, RouterOnTop
  <2>2. stack' = stack => Top' = Top
    BY DEF Top
  <2>3. QED
    BY <1>1, <1>2, <2>1, <2>2 DEF GoesOnInv, EnrollingOnTop, EnrollingGoesOn, pageVars, enrolVars
<1>3. ASSUME stack' = stack, UNCHANGED pageVars, add' > 0 \/ processing' # "none" \/ button' \/ UNCHANGED enrolVars
      PROVE  GoesOnInv'
  BY <1>1, <1>3 DEF GoesOnInv, EnrollingOnTop, EnrollingGoesOn, Top, pageVars, enrolVars
<1>4. CASE HalfSecond \/ BackPressed
  BY <1>2, <1>4 DEF HalfSecond, BackPressed
<1>5. CASE PinAnswered
  <2>1. UNCHANGED <<pageVars, enrolVars>>
    BY <1>5 DEF PinAnswered
  <2>2. stack' = stack \/ \E page \in Pages \ {"enrolling"} : Replace(page)
    BY <1>5 DEF PinAnswered, Pages
  <2>3. QED
    BY <1>2, <1>3, <2>1, <2>2
<1>6. CASE ProcessResult
  <2>1. UNCHANGED pageVars
    BY <1>6 DEF ProcessResult
  <2>2. CASE processing = "success"
    <3>1. Replace("faceConfig") /\ "faceConfig" \in Pages \ {"enrolling"}
      BY <1>6, <2>2 DEF ProcessResult, Pages
    <3>2. Top' = "enrolling" => stack' # stack
      <4>1. CASE stack = <<>>
        BY <3>1, <4>1 DEF Replace, Top
      <4>2. CASE stack # <<>>
        <5>1. stack' # <<>> /\ Len(stack') = Len(stack) /\ stack'[Len(stack)] = "faceConfig"
          BY <1>1, <3>1, <4>2, SwapPage DEF Replace
        <5>2. QED
          BY <5>1 DEF Top
      <4>3. QED
        BY <4>1, <4>2
    <3>3. QED
      BY <1>2, <2>1, <3>1, <3>2
  <2>3. CASE processing # "success"
    BY <1>3, <1>6, <2>1, <2>3 DEF ProcessResult
  <2>4. QED
    BY <2>2, <2>3
<1>7. CASE OnAcquire \/ EnrollAnswered
  BY <1>1, <1>3, <1>7 DEF OnAcquire, EnrollAnswered, abilityVars
<1>8. CASE TenMinutes \/ GotAuthInfo \/ OnBackground \/ DoPINAuth
  BY <1>3, <1>8 DEF TenMinutes, GotAuthInfo, OnBackground, DoPINAuth, abilityVars
<1>9. CASE DeleteAnswered
  BY <1>2, <1>3, <1>9 DEF DeleteAnswered, abilityVars
<1>10. CASE DeleteFace
  BY <1>2, <1>3, <1>10 DEF DeleteFace
<1>11. CASE Launch
  <2>1. stack' = <<"entryView">> /\ Len(stack') = 1 /\ Top' = "entryView"
    BY <1>11 DEF Launch, Top
  <2>2. QED
    BY <2>1 DEF GoesOnInv, EnrollingOnTop, EnrollingGoesOn
<1>12. CASE OnDestroy
  <2>1. stack' = <<>> /\ Len(stack') = 0 /\ Top' = "none"
    BY <1>12 DEF OnDestroy, Top
  <2>2. QED
    BY <2>1 DEF GoesOnInv, EnrollingOnTop, EnrollingGoesOn
<1>13. CASE DeclarationOpened
  <2>1. /\ stack # <<>> /\ stack[Len(stack)] # "enrolling" /\ stack' = Append(stack, "enrollDeclare")
    BY <1>13 DEF DeclarationOpened, Top
  <2>2. /\ stack' # <<>> /\ Len(stack') = Len(stack) + 1 /\ stack'[Len(stack) + 1] = "enrollDeclare"
        /\ \A i \in 1..Len(stack) : stack'[i] = stack[i]
    BY <1>1, <2>1, PushPage, AppendProperties DEF Pages
  <2>3. Top' # "enrolling" /\ \A i \in 1..Len(stack') - 1 : stack'[i] # "enrolling"
    BY <1>1, <2>1, <2>2 DEF Top, EnrollingOnTop
  <2>4. QED
    BY <2>3 DEF GoesOnInv, EnrollingOnTop, EnrollingGoesOn
<1>14. CASE EnrollClicked
  <2>1. stack # <<>> /\ stack' = [stack EXCEPT ![Len(stack)] = "enrolling"] /\ visit' = visit + 1 /\ ~loaded'
    BY <1>14 DEF EnrollClicked, Top
  <2>2. ASSUME NEW page \in Pages, stack' = [stack EXCEPT ![Len(stack)] = page]
        PROVE  Len(stack') = Len(stack) /\ \A i \in 1..Len(stack) - 1 : stack'[i] = stack[i]
    BY <1>1, <2>1, <2>2, SwapPage
  <2>3. Len(stack') = Len(stack) /\ \A i \in 1..Len(stack) - 1 : stack'[i] = stack[i]
    <3>1. "enrolling" \in Pages
      BY DEF Pages
    <3>2. QED
      BY <2>1, <2>2, <3>1
  <2>4. visit' # 0
    BY <1>1, <2>1
  <2>5. \A i \in 1..Len(stack') - 1 : stack'[i] # "enrolling"
    BY <1>1, <2>3 DEF EnrollingOnTop
  <2>6. QED
    BY <2>1, <2>4, <2>5 DEF GoesOnInv, EnrollingOnTop, EnrollingGoesOn
(* A page with its surface begins an enrolment unless one is under way.    *)
<1>15. ASSUME NEW id, id # 0, StartEnroll(id), UNCHANGED processing PROVE add' > 0 \/ processing' # "none"
  BY <1>1, <1>15 DEF StartEnroll, OneEnrolment
<1>16. CASE OnLoad
  <2>1. Top = "enrolling" /\ stack' = stack /\ visit' = visit /\ visit # 0 /\ surfaceId' = visit
    BY <1>1, <1>16 DEF OnLoad, abilityVars, EnrollingOnTop
  <2>2. add' > 0 \/ processing' # "none"
    BY <1>15, <1>16, <2>1 DEF OnLoad
  <2>3. QED
    BY <1>1, <2>1, <2>2 DEF GoesOnInv, EnrollingOnTop, EnrollingGoesOn, Top
<1>17. CASE TryAgain
  <2>1. Top = "enrolling" /\ stack' = stack /\ UNCHANGED pageVars
    BY <1>17 DEF TryAgain, abilityVars
  <2>2. CASE loaded
    <3>1. surfaceId # 0
      BY <1>1, <2>1, <2>2 DEF EnrollingOnTop
    <3>2. add' > 0 \/ processing' # "none"
      BY <1>15, <1>17, <3>1 DEF TryAgain
    <3>3. QED
      BY <1>3, <2>1, <3>2
  <2>3. CASE ~loaded
    BY <1>1, <2>1, <2>3 DEF GoesOnInv, EnrollingOnTop, EnrollingGoesOn, Top, pageVars
  <2>4. QED
    BY <2>2, <2>3
<1>18. CASE UNCHANGED vars
  BY <1>3, <1>18 DEF vars, abilityVars
<1>19. QED
  BY <1>4, <1>5, <1>6, <1>7, <1>8, <1>9, <1>10, <1>11, <1>12, <1>13, <1>14, <1>16, <1>17, <1>18
  DEF Next, Timers, Answers, User

(* A loaded enrolling page always has an enrolment under way, a result to  *)
(* show or its button, although its startEnroll was skipped if an earlier  *)
(* visit's enrolment had not ended: that one's answer is still to come, or *)
(* its processResult still to end, and both end it for the page shown.     *)
THEOREM EnrollingGoesOnCorrect == Spec => []EnrollingGoesOn
<1>1. Init => GoesOnInv
  BY DEF Init, GoesOnInv, EnrollingOnTop, EnrollingGoesOn, Top
<1>2. GoesOnInv => EnrollingGoesOn
  BY DEF GoesOnInv
<1>3. QED
  BY <1>1, <1>2, GoesOnStep, SettingsInit, SettingsTypeStep, OneEnrolmentInit, OneEnrolmentStep, PTL DEF Spec

-------------------------------------------------------------------------------
(* The page that the end of an enrolment replaces.                         *)

(* With one start and one PIN authentication the router only has these     *)
(* stacks, the authentication is over once the entry page is gone, and an  *)
(* enrolment keeps the enrolling page on its own until the ability ends.   *)
SingleStacks == {<<>>, <<"entryView">>, <<"enrollIntro">>, <<"faceConfig">>, <<"enrolling">>,
                 <<"enrollIntro", "enrollDeclare">>, <<"faceConfig", "enrollDeclare">>}

SingleVisit ==
    /\ launches = 0 => stack = <<>> /\ ~enrolling
    /\ launches <= 1 /\ clicks <= 1 =>
          /\ stack \in SingleStacks
          /\ stack # <<>> /\ stack # <<"entryView">> => pin = 0
          /\ enrolling /\ stack # <<>> => stack = <<"enrolling">>

(* What the router does to a stack of one page and of two.                 *)
LEMMA OnePage ==
    ASSUME NEW p \in Pages, stack = <<p>>
    PROVE  /\ stack # <<>> /\ Len(stack) = 1 /\ Top = p
           /\ \A x : [stack EXCEPT ![Len(stack)] = x] = <<x>>
           /\ \A x \in Pages : Append(stack, x) = <<p, x>>
<1>1. stack # <<>> /\ Len(stack) = 1 /\ Top = p
  BY DEF Top
<1>2. ASSUME NEW x PROVE [stack EXCEPT ![Len(stack)] = x] = <<x>>
  BY <1>1
<1>3. ASSUME NEW x \in Pages PROVE Append(stack, x) = <<p, x>>
  <2>1. stack \in Seq(Pages) /\ <<p, x>> \in Seq(Pages) /\ Len(<<p, x>>) = 2
    OBVIOUS
  <2>2. /\ Append(stack, x) \in Seq(Pages) /\ Len(Append(stack, x)) = 2
        /\ Append(stack, x)[1] = p /\ Append(stack, x)[2] = x
    BY <1>1, <2>1, AppendProperties
  <2>3. \A i \in 1..2 : Append(stack, x)[i] = <<p, x>>[i]
    BY <2>2
  <2>4. QED
    BY <2>1, <2>2, <2>3, SeqEqual
<1>4. QED
  BY <1>1, <1>2, <1>3

LEMMA TwoPages ==
    ASSUME NEW p \in Pages, NEW q \in Pages, stack = <<p, q>>
    PROVE  stack # <<>> /\ Len(stack) = 2 /\ Top = q /\ SubSeq(stack, 1, Len(stack) - 1) = <<p>>
<1>1. stack # <<>> /\ Len(stack) = 2 /\ Top = q /\ stack[1] = p /\ stack \in Seq(Pages)
  BY DEF Top
<1>2. SubSeq(stack, 1, 1) = <<p>>
  <2>1. 1 \in Int /\ \A i \in 1..1 : stack[i] \in Pages
    BY <1>1
  <2>2. /\ SubSeq(stack, 1, 1) \in Seq(Pages) /\ Len(SubSeq(stack, 1, 1)) = IF 1 <= 1 THEN 1 - 1 + 1 ELSE 0
        /\ \A i \in 1..1 - 1 + 1 : SubSeq(stack, 1, 1)[i] = stack[1 + i - 1]
    BY <2>1, SubSeqProperties
  <2> DEFINE z == SubSeq(stack, 1, 1)
  <2> HIDE DEF z
  <2>3. z \in Seq(Pages) /\ Len(z) = 1 /\ z[1] = stack[1]
    BY <2>2 DEF z
  <2>4. z = <<p>>
    BY <1>1, <2>3
  <2>5. QED
    BY <2>4 DEF z
<1>3. QED
  BY <1>1, <1>2

(* The stacks told apart.                                                  *)
LEMMA DistinctStacks ==
    /\ <<"enrolling">> # <<"entryView">> /\ <<"enrolling">> # <<>> /\ <<"entryView">> # <<>>
    /\ \A p \in Pages, q \in Pages : <<p>> = <<q>> => p = q
    /\ \A p \in Pages, q \in Pages, r \in Pages : <<p, q>> # <<r>> /\ <<p, q>> # <<>> /\ <<p>> # <<>>
OBVIOUS

(* One of the stacks with its page replaced, popped or added is another.   *)
LEMMA SingleStackMoves ==
    ASSUME stack \in SingleStacks
    PROVE  /\ Len(stack) > 1 => /\ SubSeq(stack, 1, Len(stack) - 1) \in {<<"enrollIntro">>, <<"faceConfig">>}
                                /\ stack # <<"entryView">> /\ stack # <<"enrolling">> /\ stack # <<>>
           /\ Top \in {"enrollIntro", "faceConfig"} =>
                 /\ Append(stack, "enrollDeclare") \in SingleStacks
                 /\ stack # <<"entryView">> /\ stack # <<"enrolling">> /\ stack # <<>>
           /\ \A x : stack \in {<<"entryView">>, <<"enrolling">>} \/ Top = "enrollIntro" =>
                 [stack EXCEPT ![Len(stack)] = x] = <<x>>
           /\ Top = "enrolling" <=> stack = <<"enrolling">>
           /\ Top = "entryView" <=> stack = <<"entryView">>
<1>1. CASE stack = <<>>
  BY <1>1, DistinctStacks DEF Top
<1>2. ASSUME NEW p \in {"entryView", "enrollIntro", "faceConfig", "enrolling"}, stack = <<p>>
      PROVE  /\ Len(stack) = 1 /\ Top = p /\ p \in Pages
             /\ \A x : [stack EXCEPT ![Len(stack)] = x] = <<x>>
             /\ Append(stack, "enrollDeclare") = <<p, "enrollDeclare">>
  BY <1>2, OnePage DEF Pages
<1>3. ASSUME NEW p \in {"enrollIntro", "faceConfig"}, stack = <<p, "enrollDeclare">>
      PROVE  /\ Len(stack) = 2 /\ Top = "enrollDeclare" /\ SubSeq(stack, 1, Len(stack) - 1) = <<p>>
             /\ stack # <<"entryView">> /\ stack # <<"enrolling">> /\ stack # <<>>
  BY <1>3, TwoPages, DistinctStacks DEF Pages
<1>4. ASSUME NEW p \in {"entryView", "enrollIntro", "faceConfig", "enrolling"}, stack = <<p>>
      PROVE  /\ ~(Len(stack) > 1)
             /\ p \in {"enrollIntro", "faceConfig"} => /\ Append(stack, "enrollDeclare") \in SingleStacks
                                                      /\ stack # <<"entryView">> /\ stack # <<"enrolling">>
                                                      /\ stack # <<>>
             /\ p = "enrolling" <=> stack = <<"enrolling">>
             /\ p = "entryView" <=> stack = <<"entryView">>
  BY <1>2, <1>4, DistinctStacks DEF SingleStacks, Pages
<1>5. QED
  BY <1>1, <1>2, <1>3, <1>4 DEF SingleStacks

LEMMA SingleVisitStep == SettingsInv /\ OneEnrolment /\ SingleVisit /\ [Next]_vars => SingleVisit'
<1> SUFFICES ASSUME SettingsInv, OneEnrolment, SingleVisit, [Next]_vars PROVE SingleVisit'
  OBVIOUS
<1>1. /\ launches \in Nat /\ clicks \in Nat /\ pin \in 0..clicks /\ enrolling \in BOOLEAN
      /\ (ability = "off") = (stack = <<>>)
  BY Bounds DEF SettingsInv, TypeOK
<1> DEFINE Single == launches <= 1 /\ clicks <= 1
           Shape == /\ stack \in SingleStacks
                    /\ stack # <<>> /\ stack # <<"entryView">> => pin = 0
                    /\ enrolling /\ stack # <<>> => stack = <<"enrolling">>
<1>2. /\ launches = 0 => stack = <<>> /\ ~enrolling
      /\ Single => Shape
  BY DEF SingleVisit
<1>3. ASSUME launches' = 0 => stack' = <<>> /\ ~enrolling', Single' => Shape' PROVE SingleVisit'
  BY <1>3 DEF SingleVisit
(* Steps that leave the pages alone and begin no enrolment.                *)
<1>4. ASSUME UNCHANGED <<launches, clicks, stack>>, pin' \in Nat, pin' <= pin, enrolling' => enrolling
      PROVE  SingleVisit'
  BY <1>1, <1>2, <1>3, <1>4
(* Steps that replace the page shown, the enrolling page only at the end   *)
(* of its enrolment.                                                       *)
<1>5. ASSUME NEW page \in {"enrollIntro", "faceConfig"}, Replace(page), UNCHANGED <<launches, clicks>>,
             pin' \in Nat, pin' <= pin, enrolling' => enrolling,
             Single => \/ stack = <<>>
                       \/ stack \in {<<"entryView">>, <<"enrolling">>} /\ pin' = 0 /\ ~enrolling'
      PROVE  SingleVisit'
  <2>1. CASE stack = <<>>
    BY <1>4, <1>5, <2>1 DEF Replace
  <2>2. CASE stack # <<>>
    <3>1. launches # 0 /\ stack' = [stack EXCEPT ![Len(stack)] = page]
      BY <1>2, <1>5, <2>2 DEF Replace
    <3>2. ASSUME Single' PROVE stack' \in {<<"enrollIntro">>, <<"faceConfig">>} /\ pin' = 0 /\ ~enrolling'
      <4>1. /\ stack \in SingleStacks /\ stack \in {<<"entryView">>, <<"enrolling">>}
            /\ pin' = 0 /\ ~enrolling'
        BY <1>2, <1>5, <2>2, <3>2
      <4>2. stack' = <<page>>
        BY <3>1, <4>1, SingleStackMoves
      <4>3. QED
        BY <1>5, <4>1, <4>2
    <3>3. Single' => Shape'
      BY <3>2 DEF SingleStacks
    <3>4. QED
      BY <1>3, <1>5, <3>1, <3>3
  <2>3. QED
    BY <2>1, <2>2
<1>6. ASSUME RouteBack, UNCHANGED <<clicks, pin, enrolling>> PROVE SingleVisit'
  <2>1. CASE Len(stack) > 1
    <3>1. stack # <<>> /\ launches' = launches /\ stack' = SubSeq(stack, 1, Len(stack) - 1)
      BY <1>6, <2>1 DEF RouteBack
    <3>2. ASSUME Single PROVE stack' \in {<<"enrollIntro">>, <<"faceConfig">>} /\ pin = 0 /\ ~enrolling
      <4>1. /\ SubSeq(stack, 1, Len(stack) - 1) \in {<<"enrollIntro">>, <<"faceConfig">>}
            /\ stack # <<"entryView">> /\ stack # <<"enrolling">>
        BY <1>2, <2>1, <3>2, SingleStackMoves
      <4>2. QED
        BY <1>2, <3>1, <3>2, <4>1
    <3>3. Single' => Shape'
      BY <1>6, <3>1, <3>2 DEF SingleStacks
    <3>4. QED
      BY <1>2, <1>3, <3>1, <3>3
  <2>2. CASE ~(Len(stack) > 1)
    BY <1>1, <1>4, <1>6, <2>2 DEF RouteBack
  <2>3. QED
    BY <2>1, <2>2
<1>7. CASE TenMinutes \/ GotAuthInfo \/ OnAcquire \/ EnrollAnswered \/ OnBackground
  BY <1>1, <1>4, <1>7
  DEF TenMinutes, GotAuthInfo, OnAcquire, EnrollAnswered, OnBackground, abilityVars, pinVars, enrolVars
<1>8. CASE ProcessResult
  <2>1. enrolling /\ enrolling' = FALSE /\ UNCHANGED <<launches, pinVars>>
    BY <1>8 DEF ProcessResult, OneEnrolment
  <2>2. CASE processing = "success"
    <3>1. Replace("faceConfig")
      BY <1>8, <2>2 DEF ProcessResult
    <3>2. Single => stack = <<>> \/ (stack = <<"enrolling">> /\ pin' = 0 /\ ~enrolling')
      BY <1>2, <2>1, DistinctStacks DEF pinVars
    <3>3. QED
      BY <1>1, <1>5, <2>1, <3>1, <3>2 DEF pinVars
  <2>3. CASE processing # "success"
    BY <1>1, <1>4, <1>8, <2>1, <2>3 DEF ProcessResult, pinVars
  <2>4. QED
    BY <2>2, <2>3
<1>9. CASE HalfSecond \/ BackPressed
  BY <1>6, <1>9 DEF HalfSecond, BackPressed, pinVars, enrolVars
<1>10. CASE PinAnswered
  <2>1. pin > 0 /\ pin' = pin - 1 /\ pin' \in Nat /\ UNCHANGED <<launches, clicks, enrolling>>
    BY <1>1, <1>10 DEF PinAnswered, enrolVars
  <2>2. ASSUME NEW page \in {"enrollIntro", "faceConfig"}, Replace(page) PROVE SingleVisit'
    <3>1. ASSUME Single PROVE stack = <<>> \/ (stack = <<"entryView">> /\ pin' = 0 /\ ~enrolling')
      <4>1. pin' = 0
        BY <1>1, <2>1, <3>1
      <4>2. stack = <<>> \/ stack = <<"entryView">>
        BY <1>2, <2>1, <3>1
      <4>3. QED
        BY <1>2, <2>1, <3>1, <4>1, <4>2, DistinctStacks
    <3>2. QED
      BY <1>1, <1>5, <2>1, <2>2, <3>1
  <2>3. CASE UNCHANGED <<expiry, stack, surfaceVars, confirmed>>
    BY <1>1, <1>4, <2>1, <2>3
  <2>4. QED
    BY <1>10, <2>2, <2>3 DEF PinAnswered
<1>11. CASE DeleteAnswered
  BY <1>1, <1>4, <1>6, <1>11 DEF DeleteAnswered, abilityVars, pinVars, enrolVars
<1>12. CASE DeleteFace
  BY <1>1, <1>4, <1>6, <1>12 DEF DeleteFace, pinVars, enrolVars
<1>13. CASE Launch
  <2>1. launches' = launches + 1 /\ stack' = <<"entryView">> /\ UNCHANGED <<clicks, pin, enrolling>>
    BY <1>13 DEF Launch, pinVars, enrolVars
  <2>2. Single' => launches = 0
    BY <1>1, <2>1
  <2>3. Single' => Shape'
    BY <1>2, <2>1, <2>2 DEF SingleStacks
  <2>4. QED
    BY <1>1, <1>3, <2>1, <2>3
<1>14. CASE DeclarationOpened
  <2>1. /\ Top \in {"enrollIntro", "faceConfig"} /\ stack' = Append(stack, "enrollDeclare") /\ stack # <<>>
        /\ UNCHANGED <<launches, clicks, pin, enrolling>>
    BY <1>1, <1>14 DEF DeclarationOpened, pinVars, enrolVars
  <2>2. ASSUME Single PROVE stack' \in SingleStacks /\ pin = 0 /\ ~enrolling
    <3>1. /\ stack' \in SingleStacks
          /\ stack # <<"entryView">> /\ stack # <<"enrolling">>
      BY <1>2, <2>1, <2>2, SingleStackMoves
    <3>2. QED
      BY <1>2, <2>1, <2>2, <3>1
  <2>3. Single' => Shape'
    BY <2>1, <2>2
  <2>4. QED
    BY <1>2, <1>3, <2>1, <2>3
<1>15. CASE DoPINAuth
  <2>1. /\ Top = "entryView" /\ stack # <<>> /\ clicks' = clicks + 1
        /\ UNCHANGED <<launches, stack, enrolling>>
    BY <1>1, <1>15 DEF DoPINAuth, enrolVars
  <2>2. ASSUME Single' PROVE Shape'
    <3>1. Single
      BY <1>1, <2>1, <2>2
    <3>2. stack = <<"entryView">>
      BY <1>2, <2>1, <3>1, SingleStackMoves
    <3>3. ~enrolling
      BY <1>2, <3>1, <3>2, DistinctStacks
    <3>4. QED
      BY <2>1, <3>2, <3>3 DEF SingleStacks
  <2>3. QED
    BY <1>2, <1>3, <2>1, <2>2
<1>16. CASE EnrollClicked
  <2>1. /\ Top = "enrollIntro" /\ stack # <<>> /\ stack' = [stack EXCEPT ![Len(stack)] = "enrolling"]
        /\ UNCHANGED <<launches, clicks, pin>>
    BY <1>1, <1>16 DEF EnrollClicked, pinVars
  <2>2. ASSUME Single PROVE stack' = <<"enrolling">> /\ pin = 0
    <3>1. stack' = <<"enrolling">> /\ stack # <<"entryView">>
      BY <1>2, <2>1, <2>2, SingleStackMoves
    <3>2. QED
      BY <1>2, <2>1, <2>2, <3>1
  <2>3. Single' => Shape'
    BY <2>1, <2>2 DEF SingleStacks
  <2>4. QED
    BY <1>2, <1>3, <2>1, <2>3
<1>17. CASE OnLoad \/ TryAgain
  <2>1. Top = "enrolling" /\ stack # <<>> /\ UNCHANGED <<launches, clicks, stack, pin>>
    BY <1>1, <1>17 DEF OnLoad, TryAgain, abilityVars, pinVars
  <2>2. Single => stack = <<"enrolling">> /\ Shape
    BY <1>2, <2>1, SingleStackMoves
  <2>3. Single' => Shape'
    BY <2>1, <2>2
  <2>4. QED
    BY <1>2, <1>3, <2>1, <2>3
<1>18. CASE OnDestroy
  <2>1. stack' = <<>> /\ UNCHANGED <<launches, enrolling>>
    BY <1>18 DEF OnDestroy, enrolVars
  <2>2. QED
    BY <1>2, <1>3, <2>1 DEF SingleStacks
<1>19. CASE UNCHANGED vars
  BY <1>1, <1>4, <1>19 DEF vars, abilityVars, pinVars, enrolVars
<1>20. QED
  BY <1>7, <1>8, <1>9, <1>10, <1>11, <1>12, <1>13, <1>14, <1>15, <1>16, <1>17, <1>18, <1>19
  DEF Next, Timers, Answers, User

(* With one start of the ability and one PIN authentication, what the end  *)
(* of a successful enrolment replaces is the enrolling page itself,        *)
(* seconds after the result came in: nothing else that fires meanwhile     *)
(* changes the page without ending the ability.                            *)
THEOREM OwnPageCorrect == Spec => []OwnPageReplaced
<1>1. Init => SingleVisit
  BY DEF Init, SingleVisit, SingleStacks
<1>2. ASSUME SettingsInv, OneEnrolment, SingleVisit PROVE OwnPageReplaced
  <2>1. SUFFICES ASSUME processing = "success", clicks = 1, launches = 1, ability # "off"
                 PROVE  Top = "enrolling"
    BY DEF OwnPageReplaced
  <2>2. enrolling /\ stack # <<>>
    BY <1>2, <2>1 DEF OneEnrolment, SettingsInv, TypeOK
  <2>3. stack \in SingleStacks /\ stack = <<"enrolling">>
    BY <1>2, <2>1, <2>2 DEF SingleVisit
  <2>4. QED
    BY <2>3, SingleStackMoves
<1>3. QED
  BY <1>1, <1>2, SettingsInit, SettingsTypeStep, OneEnrolmentInit, OneEnrolmentStep, SingleVisitStep, PTL DEF Spec

-------------------------------------------------------------------------------
(* The deletion: the safety behind DeleteLeaves.                           *)

(* As long as the page a deletion was confirmed on is shown, a timer runs; *)
(* every way off that page is one of its ends.                             *)
DeletionTimed == confirmed => timer > 0
TimerLeaves == confirmed /\ timer' < timer => ~confirmed'

LEMMA DeletionStep == SettingsInv /\ DeletionTimed /\ [Next]_vars => DeletionTimed' /\ TimerLeaves
<1> SUFFICES ASSUME SettingsInv, DeletionTimed, [Next]_vars PROVE DeletionTimed' /\ TimerLeaves
  OBVIOUS
<1>1. timer \in Nat
  BY DEF SettingsInv, TypeOK
<1>2. CASE timer' = timer /\ (confirmed' => confirmed)
  BY <1>1, <1>2 DEF DeletionTimed, TimerLeaves
<1>3. CASE ~confirmed'
  BY <1>3 DEF DeletionTimed, TimerLeaves
<1>4. CASE HalfSecond
  BY <1>3, <1>4 DEF HalfSecond, RouteBack, TerminateAbility
<1>5. CASE DeleteFace
  BY <1>1, <1>5 DEF DeleteFace, DeletionTimed, TimerLeaves
<1>6. CASE DeleteAnswered
  BY <1>2, <1>6 DEF DeleteAnswered, RouteBack, TerminateAbility, abilityVars
<1>7. CASE TenMinutes \/ OnBackground \/ BackPressed
  BY <1>3, <1>7 DEF TenMinutes, OnBackground, BackPressed, RouteBack, TerminateAbility
<1>8. CASE ProcessResult \/ PinAnswered
  BY <1>2, <1>8 DEF ProcessResult, PinAnswered, Replace, deleteVars
<1>9. CASE GotAuthInfo \/ OnAcquire \/ EnrollAnswered
  BY <1>2, <1>9 DEF GotAuthInfo, OnAcquire, EnrollAnswered, abilityVars, deleteVars
<1>10. CASE Launch \/ DeclarationOpened \/ DoPINAuth \/ EnrollClicked
  BY <1>2, <1>10 DEF Launch, DeclarationOpened, DoPINAuth, EnrollClicked, deleteVars
<1>11. CASE TryAgain \/ OnLoad \/ OnDestroy
  BY <1>2, <1>11 DEF TryAgain, OnLoad, OnDestroy, abilityVars, deleteVars
<1>12. CASE UNCHANGED vars
  BY <1>2, <1>12 DEF vars, abilityVars, deleteVars
<1>13. QED
  BY <1>4, <1>5, <1>6, <1>7, <1>8, <1>9, <1>10, <1>11, <1>12 DEF Next, Timers, Answers, User

(* Whoever confirms a deletion is not kept on the page by an answer that   *)
(* does not come: for any deletions and starts of the ability a timer of   *)
(* 500 ms runs until the page is left, and the first that fires leaves it. *)
(* With the fairness of the timers this is DeleteLeaves.                   *)
THEOREM DeletionCorrect == Spec => []DeletionTimed /\ [][TimerLeaves]_vars
<1>1. Init => DeletionTimed
  BY DEF Init, DeletionTimed
<1>2. QED
  BY <1>1, SettingsInit, SettingsTypeStep, DeletionStep, PTL DEF Spec
===============================================================================
