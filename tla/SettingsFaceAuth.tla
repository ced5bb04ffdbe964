--------------------------- MODULE SettingsFaceAuth ---------------------------
(***************************************************************************)
(* The settings application: its pages, its controllers and models, which  *)
(* live as long as the process, and the timers and answers they wait for.  *)
(* One event is handled to its end, awaits of finished promises included,  *)
(* before the next.  The ability may be started again in the same process, *)
(* whose AppStorage and controllers then are as they were left.            *)
(*                                                                         *)
(* External: the router and the ability, the identity manager, which       *)
(* answers when it likes and refuses without a session, and setSurfaceId,  *)
(* whose errors the application catches.  Surfaces are numbered by visits  *)
(* of the enrolling page; 0 is no surface.                                 *)
(***************************************************************************)
EXTENDS Naturals, Sequences

CONSTANTS MaxLaunches,   \* bound: times the ability is started
          MaxClicks,     \* bound: PIN authentications begun
          MaxVisits,     \* bound: visits of the enrolling page
          MaxDeletes     \* bound: deletions, and their timers, at a time

ASSUME SettingsAssumption ==
    MaxLaunches \in Nat /\ MaxClicks \in Nat /\ MaxVisits \in Nat /\ MaxDeletes \in Nat

VARIABLES
    ability,       \* "off", "on", or "leaving" after terminateSelf
    launches,
    stack,         \* the router's pages, the one shown last
    pin, clicks,   \* PIN authentications under way, and begun
    expiry,        \* ten minute timers
    session,       \* the identity manager has a session
    faces,         \* faces the identity manager has
    faceNum,       \* UserIdm_FaceNum: 0, 1, or 2 for undefined
    query,         \* getAuthInfo under way
    credId,        \* UserIdm_CredId is set
    surfaceId,     \* xComponentSurfaceId, 0: ''
    visit, loaded, \* the page's surface, and whether it has been loaded
    shown,         \* the surface the service has
    swallowed,     \* history: the last setSurfaceId failed
    enrolling,     \* EnrollingController.enrolling
    add,           \* addCredential calls under way
    processing,    \* processResult: "none", or the result it shows
    button,        \* the button to try again is visible
    del, timer,    \* delCred calls under way; 500 ms timers
    confirmed      \* history: the page a deletion was confirmed on is still shown

pinVars == <<pin, clicks, expiry>>
idmVars == <<faces, faceNum, query, credId>>
pageVars == <<surfaceId, visit, loaded>>
surfaceVars == <<shown, swallowed>>
enrolVars == <<enrolling, add, processing, button>>
deleteVars == <<del, timer>>
abilityVars == <<ability, launches, stack, session, confirmed>>
vars == <<abilityVars, pinVars, idmVars, pageVars, surfaceVars, enrolVars, deleteVars>>

Top == IF stack = <<>> THEN "none" ELSE stack[Len(stack)]

Init ==
    /\ ability = "off" /\ launches = 0 /\ stack = <<>> /\ session = FALSE
    /\ pin = 0 /\ clicks = 0 /\ expiry = 0
    /\ faces \in 0..1 /\ faceNum = 2 /\ query = FALSE /\ credId = FALSE
    /\ surfaceId = 0 /\ visit = 0 /\ loaded = FALSE
    /\ shown = 0 /\ swallowed = FALSE
    /\ enrolling = FALSE /\ add = 0 /\ processing = "none" /\ button = FALSE
    /\ del = 0 /\ timer = 0 /\ confirmed = FALSE

-------------------------------------------------------------------------------
(* The surface and the router.                                             *)

(* FaceAuthModel.setSurfaceId: an error is logged and forgotten.           *)
SetSurfaceId(id) ==
    \/ shown' = id /\ swallowed' = FALSE
    \/ shown' = shown /\ swallowed' = TRUE

(* Mutant: the page forgets to give its surface back.                      *)
KeepSurface == UNCHANGED surfaceVars

(* onPageHide of the enrolling page: EnrollingController.clear.            *)
PageHides == IF Top = "enrolling" THEN SetSurfaceId(0) ELSE UNCHANGED surfaceVars

(* router.replace; without an ability there is nothing to replace.         *)
Replace(page) ==
    IF stack = <<>> THEN UNCHANGED <<stack, surfaceVars, confirmed>>
    ELSE stack' = [stack EXCEPT ![Len(stack)] = page] /\ PageHides /\ confirmed' = FALSE

(* CommonController.terminateAbility.                                      *)
TerminateAbility ==
    /\ session' = FALSE
    /\ ability' = IF ability = "on" THEN "leaving" ELSE ability
    /\ confirmed' = FALSE

(* Mutant: the last page is popped too.                                    *)
RouteBackAlways ==
    /\ stack # <<>>
    /\ stack' = SubSeq(stack, 1, Len(stack) - 1) /\ PageHides /\ confirmed' = FALSE
    /\ UNCHANGED <<ability, session, launches>>

(* CommonController.routeBack.                                             *)
RouteBack ==
    /\ IF Len(stack) > 1
       THEN /\ stack' = SubSeq(stack, 1, Len(stack) - 1) /\ PageHides
            /\ confirmed' = FALSE /\ UNCHANGED <<ability, session>>
       ELSE TerminateAbility /\ UNCHANGED <<stack, surfaceVars>>
    /\ UNCHANGED launches

-------------------------------------------------------------------------------
(* The ability.                                                            *)

(* The first start loads the modules: EntryViewController asks for the     *)
(* number of faces, once for the process.                                  *)
Launch ==
    /\ ability = "off" /\ launches < MaxLaunches
    /\ ability' = "on" /\ launches' = launches + 1 /\ stack' = <<"entryView">>
    /\ query' = (query \/ launches = 0)
    /\ UNCHANGED <<session, confirmed, pinVars, faces, faceNum, credId, pageVars, surfaceVars, enrolVars, deleteVars>>

OnBackground ==
    /\ ability = "on"
    /\ TerminateAbility
    /\ PageHides
    /\ UNCHANGED <<launches, stack, pinVars, idmVars, pageVars, enrolVars, deleteVars>>

(* onDestroy clears the surface and closes the session once more.          *)
OnDestroy ==
    /\ ability = "leaving"
    /\ ability' = "off" /\ stack' = <<>> /\ session' = FALSE /\ confirmed' = FALSE
    /\ SetSurfaceId(0)
    /\ UNCHANGED <<launches, pinVars, idmVars, pageVars, enrolVars, deleteVars>>

TenMinutes ==
    /\ expiry > 0 /\ expiry' = expiry - 1
    /\ TerminateAbility
    /\ UNCHANGED <<launches, stack, pin, clicks, idmVars, pageVars, surfaceVars, enrolVars, deleteVars>>

BackPressed ==
    /\ ability = "on"
    /\ RouteBack
    /\ UNCHANGED <<pinVars, idmVars, pageVars, enrolVars, deleteVars>>

DeclarationOpened ==
    /\ ability = "on" /\ Top \in {"enrollIntro", "faceConfig"}
    /\ stack' = Append(stack, "enrollDeclare") /\ confirmed' = FALSE
    /\ UNCHANGED <<ability, launches, session, pinVars, idmVars, pageVars, surfaceVars, enrolVars, deleteVars>>

-------------------------------------------------------------------------------
(* EntryViewController and UserIdmModel.updateFaceInfo.                    *)

DoPINAuth ==
    /\ ability = "on" /\ Top = "entryView" /\ clicks < MaxClicks
    /\ pin' = pin + 1 /\ clicks' = clicks + 1 /\ session' = TRUE
    /\ UNCHANGED <<ability, launches, stack, confirmed, expiry, idmVars, pageVars, surfaceVars, enrolVars, deleteVars>>

(* The rest of doPINAuth: on success the page shown, whichever it is by    *)
(* then, is replaced; a number of faces not known yet is not 0.            *)
PinAnswered ==
    /\ pin > 0 /\ pin' = pin - 1
    /\ \/ expiry' = expiry + 1 /\ Replace(IF faceNum = 0 THEN "enrollIntro" ELSE "faceConfig")
       \/ UNCHANGED <<expiry, stack, surfaceVars, confirmed>>
    /\ UNCHANGED <<ability, launches, session, clicks, idmVars, pageVars, enrolVars, deleteVars>>

GotAuthInfo ==
    /\ query /\ query' = FALSE
    /\ faceNum' = faces
    /\ credId' = (credId \/ faces > 0)
    /\ UNCHANGED <<abilityVars, pinVars, faces, pageVars, surfaceVars, enrolVars, deleteVars>>

-------------------------------------------------------------------------------
(* The enrolling page and its controller.                                  *)

(* Mutant: a second enrolment is begun while one is under way.             *)
StartEnrollTwice(id) ==
    IF id = 0 THEN UNCHANGED <<surfaceVars, enrolling, add>>
    ELSE SetSurfaceId(id) /\ enrolling' = TRUE /\ add' = add + 1

(* startEnroll, with the surface id that AppStorage holds.                 *)
StartEnroll(id) ==
    IF id = 0 \/ enrolling THEN UNCHANGED <<surfaceVars, enrolling, add>>
    ELSE SetSurfaceId(id) /\ enrolling' = TRUE /\ add' = add + 1

(* Mutant: the page is pushed on top of the introduction.                  *)
EnrollPushed ==
    /\ ability = "on" /\ Top = "enrollIntro" /\ visit < MaxVisits
    /\ stack' = Append(stack, "enrolling")
    /\ visit' = visit + 1 /\ loaded' = FALSE /\ button' = FALSE
    /\ StartEnroll(surfaceId)
    /\ UNCHANGED <<ability, launches, session, confirmed, pinVars, idmVars, surfaceId, processing, deleteVars>>

(* The introduction is replaced; aboutToAppear calls init before the page  *)
(* has a surface, with the id of an earlier visit if there was one.        *)
EnrollClicked ==
    /\ ability = "on" /\ Top = "enrollIntro" /\ visit < MaxVisits
    /\ stack' = [stack EXCEPT ![Len(stack)] = "enrolling"]
    /\ visit' = visit + 1 /\ loaded' = FALSE /\ button' = FALSE
    /\ StartEnroll(surfaceId)
    /\ UNCHANGED <<ability, launches, session, confirmed, pinVars, idmVars, surfaceId, processing, deleteVars>>

OnLoad ==
    /\ ability = "on" /\ Top = "enrolling" /\ ~loaded
    /\ loaded' = TRUE /\ surfaceId' = visit
    /\ StartEnroll(visit)
    /\ UNCHANGED <<abilityVars, pinVars, idmVars, visit, processing, button, deleteVars>>

TryAgain ==
    /\ ability = "on" /\ Top = "enrolling" /\ button
    /\ button' = FALSE
    /\ StartEnroll(surfaceId)
    /\ UNCHANGED <<abilityVars, pinVars, idmVars, pageVars, processing, deleteVars>>

(* onAcquireInfo: a face is detected.                                      *)
OnAcquire ==
    /\ add > 0
    /\ button' = FALSE
    /\ UNCHANGED <<abilityVars, pinVars, idmVars, pageVars, surfaceVars, enrolling, add, processing, deleteVars>>

(* onResult of addCredential, and processResult up to its sleeps.          *)
EnrollAnswered ==
    /\ add > 0 /\ add' = add - 1
    /\ button' = FALSE
    /\ \/ /\ session
          /\ faces' = 1 /\ credId' = TRUE /\ query' = TRUE /\ processing' = "success"
       \/ processing' = "fail" /\ UNCHANGED <<faces, credId, query>>
    /\ UNCHANGED <<abilityVars, pinVars, faceNum, pageVars, surfaceVars, enrolling, deleteVars>>

(* Mutant: a success leaves the controller enrolling.                      *)
ProcessResultStuck ==
    /\ processing # "none" /\ processing' = "none"
    /\ IF processing = "success"
       THEN Replace("faceConfig") /\ UNCHANGED <<button, enrolling>>
       ELSE button' = TRUE /\ enrolling' = FALSE /\ UNCHANGED <<stack, surfaceVars, confirmed>>
    /\ UNCHANGED <<ability, launches, session, pinVars, idmVars, pageVars, add, deleteVars>>

(* The rest of processResult, seconds later.                               *)
ProcessResult ==
    /\ processing # "none" /\ processing' = "none"
    /\ enrolling' = FALSE
    /\ IF processing = "success"
       THEN Replace("faceConfig") /\ UNCHANGED button
       ELSE button' = TRUE /\ UNCHANGED <<stack, surfaceVars, confirmed>>
    /\ UNCHANGED <<ability, launches, session, pinVars, idmVars, pageVars, add, deleteVars>>

-------------------------------------------------------------------------------
(* FaceConfigController.deleteFace.                                        *)

(* Mutant: no timer.                                                       *)
DeleteFaceUntimed ==
    /\ ability = "on" /\ Top = "faceConfig" /\ del < MaxDeletes /\ timer < MaxDeletes
    /\ credId /\ del' = del + 1 /\ confirmed' = TRUE
    /\ UNCHANGED <<ability, launches, stack, session, pinVars, idmVars, pageVars, surfaceVars, enrolVars, timer>>

(* Without a credential id deleteFace throws, and the page is left.        *)
DeleteFace ==
    /\ ability = "on" /\ Top = "faceConfig" /\ del < MaxDeletes /\ timer < MaxDeletes
    /\ timer' = timer + 1
    /\ \/ /\ credId
          /\ del' = del + 1 /\ confirmed' = TRUE
          /\ UNCHANGED <<ability, launches, stack, session, surfaceVars>>
       \/ ~credId /\ UNCHANGED del /\ RouteBack
    /\ UNCHANGED <<pinVars, idmVars, pageVars, enrolVars>>

DeleteAnswered ==
    /\ del > 0 /\ del' = del - 1
    /\ query' = TRUE
    /\ \/ session /\ faces' = 0 /\ RouteBack
       \/ UNCHANGED <<faces, abilityVars, surfaceVars>>
    /\ UNCHANGED <<pinVars, faceNum, credId, pageVars, enrolVars, timer>>

HalfSecond ==
    /\ timer > 0 /\ timer' = timer - 1
    /\ RouteBack
    /\ UNCHANGED <<pinVars, idmVars, pageVars, enrolVars, del>>

-------------------------------------------------------------------------------
Timers == TenMinutes \/ ProcessResult \/ HalfSecond

Answers == PinAnswered \/ GotAuthInfo \/ OnAcquire \/ EnrollAnswered \/ DeleteAnswered

User ==
    \/ Launch \/ OnBackground \/ BackPressed \/ DeclarationOpened \/ DoPINAuth
    \/ EnrollClicked \/ TryAgain \/ DeleteFace

Next == Timers \/ Answers \/ User \/ OnDestroy \/ OnLoad

(* Timers fire and the system finishes what terminateSelf has begun; the   *)
(* user and the identity manager do as they like.                          *)
Fairness == WF_vars(ProcessResult) /\ WF_vars(HalfSecond) /\ WF_vars(OnDestroy)

Spec == Init /\ [][Next]_vars
FairSpec == Spec /\ Fairness

-------------------------------------------------------------------------------
Pages == {"entryView", "enrollIntro", "enrollDeclare", "enrolling", "faceConfig"}

(* Every variable has its type; while the ability runs a page is shown.    *)
TypeOK ==
    /\ ability \in {"off", "on", "leaving"} /\ launches \in 0..MaxLaunches
    /\ stack \in Seq(Pages) /\ (ability = "off") = (stack = <<>>)
    /\ session \in BOOLEAN
    /\ clicks \in 0..MaxClicks /\ pin \in 0..clicks /\ expiry \in 0..clicks
    /\ faces \in 0..1 /\ faceNum \in 0..2 /\ query \in BOOLEAN /\ credId \in BOOLEAN
    /\ visit \in 0..MaxVisits /\ surfaceId \in 0..visit /\ loaded \in BOOLEAN
    /\ shown \in 0..visit /\ swallowed \in BOOLEAN
    /\ enrolling \in BOOLEAN /\ add \in Nat /\ processing \in {"none", "success", "fail"}
    /\ button \in BOOLEAN
    /\ del \in 0..MaxDeletes /\ timer \in 0..MaxDeletes /\ confirmed \in BOOLEAN

(* At most one enrolment is under way, from addCredential to the end of    *)
(* what the page shows of its result, however the page was left and        *)
(* entered again: startEnroll checks the flag before an await and sets it  *)
(* after one.                                                              *)
OneEnrolment ==
    /\ add + (IF processing = "none" THEN 0 ELSE 1) <= 1
    /\ add > 0 \/ processing # "none" <=> enrolling

(* The service is left with no surface of a page that is not shown, unless *)
(* the call that should have taken it away failed.                         *)
SurfaceReleased == Top # "enrolling" => shown = 0 \/ swallowed

(* With one PIN authentication and one start of the ability, what the end  *)
(* of a successful enrolment replaces is the enrolling page.               *)
OwnPageReplaced ==
    processing = "success" /\ clicks = 1 /\ launches = 1 /\ ability # "off" => Top = "enrolling"

(* Whoever confirms the deletion leaves the page, even if delCred is never *)
(* answered.                                                               *)
DeleteLeaves == confirmed ~> ~confirmed

(* The enrolling page, once it has its surface, is never a dead end: an    *)
(* enrolment is under way, its result is being shown, or the button to try *)
(* again is visible.  startEnroll does nothing while enrolling is set, so  *)
(* a page depends on how the enrolment of an earlier page, or of an        *)
(* earlier start of the ability, has ended.                                *)
EnrollingGoesOn ==
    Top = "enrolling" /\ loaded => add > 0 \/ processing # "none" \/ button

(* While an enrolment is under way and the page shown has its surface, the *)
(* service has that surface, "for enroll preview", unless setSurfaceId     *)
(* failed.  The startEnroll of onLoad is what sets it, and does not when   *)
(* "face is enrolling": an enrolment outlives its page, whose onPageHide   *)
(* has taken the surface away, and the next page gets none.                *)
PreviewOnPage ==
    ability = "on" /\ Top = "enrolling" /\ loaded /\ add > 0 /\ ~swallowed => shown = visit
===============================================================================
