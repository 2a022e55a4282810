---------------------------- MODULE SessionProofs ----------------------------
(***************************************************************************)
(* Theorems about Session, for any accounts and bounds.  The three safety  *)
(* properties and the types are inductive together: each names, for the    *)
(* answers that come late, what the callback looks at before it acts.      *)
(***************************************************************************)
EXTENDS Session, TLAPS

\* The views and infos that the callbacks choose have their types.
LEMMA ViewTypes ==
  ASSUME NEW i, NEW ok
  PROVE  /\ MainOrLogin(i) \in {"main", "login"}
         /\ FaceOrMain(ok) \in {"face", "main", "login"}
  BY DEF MainOrLogin, FaceOrMain

LEMMA LoggedOutIsInfo == LoggedOut \in Infos
  BY DEF LoggedOut, Infos

(***************************************************************************)
(* Types.  The flags are a part of their own: what a callback makes of     *)
(* them is a formula, whatever the numbers are.                            *)
(***************************************************************************)
Flags ==
  /\ starting \in BOOLEAN /\ listening \in BOOLEAN /\ hud \in BOOLEAN
  /\ camera \in BOOLEAN /\ needLicense \in BOOLEAN

Data ==
  /\ info \in Infos
  /\ keychain \in Infos \cup {Nothing}
  /\ root \in {"start", "login", "main", "face"}
  /\ auths \in Nat /\ requests \in Nat
  /\ license \in Nat
  /\ frames \in 0..1
  /\ uploads \in 0..MaxUploads
  /\ granted \in Accounts \cup {Nobody}

LEMMA TypeParts == TypeOK <=> Flags /\ Data
  BY DEF TypeOK, Flags, Data

\* A new process is well-typed from any item of the keychain.
LEMMA LaunchData ==
  ASSUME NEW k \in Infos \cup {Nothing}, NEW flag \in BOOLEAN, Launched(k, flag),
         granted' \in Accounts \cup {Nobody}
  PROVE  Data'
<1>1. Kept(k, flag) \in Infos \cup {Nothing}
  BY DEF Kept
<1>2. Loaded(Kept(k, flag)) \subseteq Infos
  BY <1>1, LoggedOutIsInfo DEF Loaded
<1>3. 0 \in 0..MaxUploads /\ 0 \in 0..1
  BY SessionAssumption
<1>4. root' \in {"start", "login", "main", "face"}
  BY DEF Launched
<1> QED BY <1>1, <1>2, <1>3, <1>4 DEF Launched, Data

LEMMA FlagsStep == Flags /\ [Next]_vars => Flags'
<1> SUFFICES ASSUME Flags, [Next]_vars PROVE Flags'
  OBVIOUS
<1> USE DEF Flags, Shows, LeavesLogin, SignalEnds
<1>1. CASE StartCompletes
  BY <1>1, Zenon DEF StartCompletes, ShowMainView
<1>2. CASE Press
  BY <1>2, Zenon DEF Press
<1>3. CASE WeChatResponds
  BY <1>3, Zenon DEF WeChatResponds
<1>4. CASE LoginFails
  BY <1>4, Zenon DEF LoginFails
<1>5. CASE Logout
  BY <1>5, Zenon DEF Logout
<1>6. ASSUME NEW a \in Accounts, NEW f \in BOOLEAN, LoginOk(a, f)
      PROVE  Flags'
  BY <1>6, Zenon DEF LoginOk, ShowRegisterFaceView
<1>7. ASSUME NEW ok \in BOOLEAN, LicenseAnswers(ok)
      PROVE  Flags'
  BY <1>7, Zenon DEF LicenseAnswers
<1>8. CASE Snapshot
  BY <1>8, Zenon DEF Snapshot
<1>9. CASE SnapshotAgain
  BY <1>9, Zenon DEF SnapshotAgain
<1>10. CASE UploadOk
  BY <1>10, Zenon DEF UploadOk, ShowMainView
<1>11. CASE UploadFails
  BY <1>11, Zenon DEF UploadFails
<1>12. ASSUME NEW k, NEW flag, Launched(k, flag), needLicense' \in BOOLEAN
       PROVE  Flags'
  BY <1>12, Zenon DEF Launched
<1>13. CASE UNCHANGED vars
  BY <1>13, Zenon DEF vars
<1> QED BY <1>1, <1>2, <1>3, <1>4, <1>5, <1>6, <1>7, <1>8, <1>9, <1>10, <1>11, <1>12,
           <1>13, Zenon DEF Next, Kill, KillInSave, Reinstall

LEMMA DataStep == Data /\ [Next]_vars => Data'
<1> SUFFICES ASSUME Data, [Next]_vars PROVE Data'
  OBVIOUS
<1> USE DEF Data, Shows, login, face
<1>1. CASE StartCompletes
  BY <1>1, ViewTypes DEF StartCompletes, ShowMainView
<1>2. CASE Press
  BY <1>2 DEF Press
<1>3. CASE WeChatResponds
  BY <1>3 DEF WeChatResponds
<1>4. CASE LoginFails
  BY <1>4 DEF LoginFails, Answered
<1>5. CASE Logout
  <2>1. info' \in Infos
    BY <1>5 DEF Logout, Infos
  <2> QED BY <1>5, <2>1 DEF Logout, Save
<1>6. ASSUME NEW a \in Accounts, NEW f \in BOOLEAN, LoginOk(a, f)
      PROVE  Data'
  <2>1. info' \in Infos /\ keychain' \in Infos \cup {Nothing}
    BY <1>6 DEF LoginOk, Save, Infos
  <2>2. root' \in {"start", "login", "main", "face"} /\ license' \in Nat
    BY <1>6, ViewTypes DEF LoginOk, ShowRegisterFaceView
  <2> QED BY <1>6, <2>1, <2>2 DEF LoginOk, Answered
<1>7. ASSUME NEW ok \in BOOLEAN, LicenseAnswers(ok)
      PROVE  Data'
  BY <1>7, ViewTypes DEF LicenseAnswers
<1>8. CASE Snapshot
  BY <1>8, SessionAssumption DEF Snapshot
<1>9. CASE SnapshotAgain
  BY <1>9, SessionAssumption DEF SnapshotAgain
<1>10. CASE UploadOk
  BY <1>10, ViewTypes, SessionAssumption DEF UploadOk, ShowMainView
<1>11. CASE UploadFails
  BY <1>11, SessionAssumption DEF UploadFails
<1>12. CASE Kill
  BY <1>12, LaunchData DEF Kill
<1>13. CASE KillInSave
  BY <1>13, LaunchData DEF KillInSave
<1>14. CASE Reinstall
  BY <1>14, LaunchData DEF Reinstall
<1>15. CASE UNCHANGED vars
  BY <1>15 DEF vars
<1> QED BY <1>1, <1>2, <1>3, <1>4, <1>5, <1>6, <1>7, <1>8, <1>9, <1>10, <1>11, <1>12,
           <1>13, <1>14, <1>15 DEF Next

LEMMA TypeInit == Init => TypeOK
<1>1. Init => Flags
  BY Zenon DEF Init, Flags
<1>2. Init => Data
  <2>1. 0 \in 0..MaxUploads /\ 0 \in 0..1
    BY SessionAssumption
  <2> QED BY <2>1, LoggedOutIsInfo DEF Init, Data
<1> QED BY <1>1, <1>2, TypeParts

LEMMA TypeStep == TypeOK /\ [Next]_vars => TypeOK'
<1>1. TypeOK' <=> Flags' /\ Data'
  BY DEF TypeOK, Flags, Data
<1> QED BY <1>1, TypeParts, FlagsStep, DataStep

\* Every variable of the session keeps its type (Session.TypeOK).
THEOREM TypeCorrect == Spec => []TypeOK
<1> QED BY TypeInit, TypeStep, PTL DEF Spec

(***************************************************************************)
(* Sessions.                                                               *)
(***************************************************************************)
\* A new process has the session of the keychain or none.
LEMMA LaunchSession ==
  ASSUME NEW k, NEW flag, NEW g, Launched(k, flag),
         k # Nothing => k.uid \in {Nobody, g}
  PROVE  /\ info'.uid \in {Nobody, g}
         /\ keychain' # Nothing => keychain'.uid \in {Nobody, g}
  BY DEF Launched, Kept, Loaded, LoggedOut

LEMMA SessionStep == TypeOK /\ SessionIsGranted /\ [Next]_vars => SessionIsGranted'
<1> SUFFICES ASSUME TypeOK, SessionIsGranted, [Next]_vars PROVE SessionIsGranted'
  OBVIOUS
<1> USE DEF SessionIsGranted
<1>1. CASE UNCHANGED <<info, keychain, granted>>
  BY <1>1
<1>2. CASE Logout
  <2>1. info'.uid = Nobody /\ granted' = Nobody
    BY <1>2 DEF Logout, TypeOK, Infos
  <2> QED BY <1>2, <2>1 DEF Logout, Save
<1>3. ASSUME NEW a \in Accounts, NEW f \in BOOLEAN, LoginOk(a, f)
      PROVE  SessionIsGranted'
  BY <1>3 DEF LoginOk, Save
<1>4. CASE Kill
  BY <1>4, LaunchSession DEF Kill
<1>5. CASE KillInSave
  BY <1>5, LaunchSession DEF KillInSave
<1>6. CASE Reinstall
  <2>1. keychain' = Nothing /\ info' = LoggedOut
    BY <1>6 DEF Reinstall, Launched, Kept, Loaded
  <2> QED BY <2>1 DEF LoggedOut
<1>7. Press \/ WeChatResponds \/ LoginFails \/ StartCompletes \/ Snapshot \/ SnapshotAgain
      \/ UploadOk \/ UploadFails \/ (\E ok \in BOOLEAN : LicenseAnswers(ok)) \/ UNCHANGED vars
      => UNCHANGED <<info, keychain, granted>>
  BY DEF Press, WeChatResponds, LoginFails, StartCompletes, Snapshot, SnapshotAgain,
         UploadOk, UploadFails, LicenseAnswers, vars
<1> QED BY <1>1, <1>2, <1>3, <1>4, <1>5, <1>6, <1>7 DEF Next

LEMMA SessionInit == Init => SessionIsGranted
  BY DEF Init, SessionIsGranted, LoggedOut

\* Memory and keychain hold the session the last login answer granted, or none
\* (Session.SessionIsGranted): none comes back after a logout, a save cut short or
\* a new installation.
THEOREM NoSessionComesBack == Spec => []SessionIsGranted
<1>1. TypeOK /\ SessionIsGranted /\ [Next]_vars => TypeOK' /\ SessionIsGranted'
  BY TypeStep, SessionStep
<1> QED BY <1>1, TypeInit, SessionInit, PTL DEF Spec

(***************************************************************************)
(* The root view and the login state.                                      *)
(***************************************************************************)
ViewInv == LoggedOutSeesLogin /\ LoginViewHasCause

LEMMA ViewStep == TypeOK /\ ViewInv /\ [Next]_vars => ViewInv'
<1> SUFFICES ASSUME TypeOK, ViewInv, [Next]_vars PROVE ViewInv'
  OBVIOUS
<1> USE DEF ViewInv, LoggedOutSeesLogin, LoginViewHasCause, IsLogined, Shows
<1>1. CASE UNCHANGED <<info, root, license, needLicense>>
  BY <1>1
<1>2. CASE StartCompletes
  BY <1>2 DEF StartCompletes, ShowMainView, MainOrLogin
<1>3. CASE UploadOk
  BY <1>3 DEF UploadOk, ShowMainView, MainOrLogin
<1>4. CASE Logout
  BY <1>4 DEF Logout, TypeOK, Infos
<1>5. ASSUME NEW a \in Accounts, NEW f \in BOOLEAN, LoginOk(a, f)
      PROVE  ViewInv'
  <2>1. info'.uid = a /\ a # Nobody
    BY <1>5, SessionAssumption DEF LoginOk
  <2>2. \/ root' \in {"main", "face"} \/ license' = license + 1
        \/ ~needLicense /\ info'.face
    BY <1>5, <2>1 DEF LoginOk, ShowRegisterFaceView, MainOrLogin
  <2>3. UNCHANGED needLicense
    BY <1>5 DEF LoginOk
  <2> QED BY <2>1, <2>2, <2>3 DEF TypeOK
<1>6. ASSUME NEW ok \in BOOLEAN, LicenseAnswers(ok)
      PROVE  ViewInv'
  BY <1>6 DEF LicenseAnswers, FaceOrMain, MainOrLogin
<1>7. ASSUME NEW k, NEW flag, Launched(k, flag)
      PROVE  ViewInv'
  BY <1>7 DEF Launched
<1>8. Press \/ WeChatResponds \/ LoginFails \/ Snapshot \/ SnapshotAgain \/ UploadFails \/ UNCHANGED vars
      => UNCHANGED <<info, root, license, needLicense>>
  BY DEF Press, WeChatResponds, LoginFails, Snapshot, SnapshotAgain, UploadFails, face, vars
<1> QED BY <1>1, <1>2, <1>3, <1>4, <1>5, <1>6, <1>7, <1>8 DEF Next, Kill, KillInSave, Reinstall

LEMMA ViewInit == Init => ViewInv
  BY DEF Init, ViewInv, LoggedOutSeesLogin, LoginViewHasCause, IsLogined, LoggedOut

LEMMA ViewInductive == Spec => []ViewInv
<1>1. TypeOK /\ ViewInv /\ [Next]_vars => TypeOK' /\ ViewInv'
  BY TypeStep, ViewStep
<1> QED BY <1>1, TypeInit, ViewInit, PTL DEF Spec

\* Whoever is logged out sees the login view (Session.LoggedOutSeesLogin).
THEOREM LoginIsShown == Spec => []LoggedOutSeesLogin
<1>1. ViewInv => LoggedOutSeesLogin
  BY DEF ViewInv
<1> QED BY <1>1, ViewInductive, PTL

\* Whoever is logged in sees the login view only while a licence is asked for, or
\* as one of those for whom the code shows nothing: asked for a face, with an SDK
\* that needs no licence (Session.LoginViewHasCause).
THEOREM LoginViewIsLeft == Spec => []LoginViewHasCause
<1>1. ViewInv => LoginViewHasCause
  BY DEF ViewInv
<1> QED BY <1>1, ViewInductive, PTL

(***************************************************************************)
(* What the callbacks to come are for.  GetsIn and LoginHudGoes, which TLC *)
(* checks, say that they arrive; that there is one is proved here.         *)
(***************************************************************************)
\* What is inductive beside LoginViewHasCause: the launch view waits for the
\* start request.
StartInv == root = "start" => starting

LEMMA StartStep == StartInv /\ [Next]_vars => StartInv'
<1> SUFFICES ASSUME StartInv, [Next]_vars PROVE StartInv'
  OBVIOUS
<1> USE DEF StartInv, Shows
<1>1. CASE UNCHANGED <<root, starting>>
  BY <1>1, Zenon
<1>2. StartCompletes \/ UploadOk => root' # "start"
  BY ViewTypes DEF StartCompletes, UploadOk, ShowMainView
<1>3. Logout => root' # "start"
  BY DEF Logout
<1>4. ASSUME NEW a \in Accounts, NEW f \in BOOLEAN, LoginOk(a, f)
      PROVE  root' # "start" \/ UNCHANGED <<root, starting>>
  <2>1. UNCHANGED starting
    BY <1>4, Zenon DEF LoginOk
  <2>2. root' # "start" \/ UNCHANGED root
    BY <1>4, ViewTypes DEF LoginOk, ShowRegisterFaceView
  <2> QED BY <2>1, <2>2, Zenon
<1>5. ASSUME NEW ok \in BOOLEAN, LicenseAnswers(ok)
      PROVE  root' # "start"
  BY <1>5, ViewTypes DEF LicenseAnswers
<1>6. ASSUME NEW k, NEW flag, Launched(k, flag)
      PROVE  starting'
  BY <1>6, Zenon DEF Launched
<1>7. Press \/ WeChatResponds \/ LoginFails \/ Snapshot \/ SnapshotAgain \/ UploadFails \/ UNCHANGED vars
      => UNCHANGED <<root, starting>>
  BY Zenon DEF Press, WeChatResponds, LoginFails, Snapshot, SnapshotAgain, UploadFails, vars
<1> QED BY <1>1, <1>2, <1>3, <1>4, <1>5, <1>6, <1>7, Zenon
        DEF Next, Kill, KillInSave, Reinstall

LEMMA StartInit == Init => StartInv
  BY Zenon DEF Init, StartInv

\* Whoever is logged in and waits outside has a callback to come that chooses the
\* view, or is shut out as Session.ShutOut says (Session.HasWayIn): the safety half
\* of GetsIn.
THEOREM WayInStays == Spec => []HasWayIn
<1>1. Spec => []StartInv
  BY StartInit, StartStep, PTL DEF Spec
<1>2. StartInv /\ LoginViewHasCause => HasWayIn
  BY Zenon DEF StartInv, LoginViewHasCause, HasWayIn, ShutOut, IsLogined
<1> QED BY <1>1, <1>2, LoginViewIsLeft, PTL

LEMMA HudStep == TypeOK /\ HudHasCause /\ [Next]_vars => HudHasCause'
<1> SUFFICES ASSUME TypeOK, HudHasCause, [Next]_vars PROVE HudHasCause'
  OBVIOUS
<1> USE DEF HudHasCause
<1>1. CASE UNCHANGED <<root, listening, hud, requests>>
  BY <1>1, Zenon
<1>2. CASE ~listening' /\ ~hud'
  BY <1>2, Zenon
<1>3. ASSUME NEW view, Shows(view), LeavesLogin(view), UNCHANGED requests
      PROVE  HudHasCause'
  BY <1>3, Zenon DEF Shows, LeavesLogin
<1>4. CASE Press
  BY <1>4, Zenon DEF Press
<1>5. CASE WeChatResponds
  <2>1. requests' > 0
    BY <1>5 DEF WeChatResponds, TypeOK
  <2> QED BY <1>5, <2>1, Zenon DEF WeChatResponds
<1>6. LoginFails => ~listening' /\ ~hud'
  BY Zenon DEF LoginFails, SignalEnds
<1>7. ASSUME NEW a, NEW f, LoginOk(a, f)
      PROVE  ~listening' /\ ~hud'
  BY <1>7, Zenon DEF LoginOk, SignalEnds
<1>8. ASSUME NEW k, NEW flag, Launched(k, flag)
      PROVE  ~listening' /\ ~hud'
  BY <1>8, Zenon DEF Launched
<1>9. StartCompletes \/ UploadOk \/ Logout \/ (\E ok \in BOOLEAN : LicenseAnswers(ok))
      => HudHasCause'
  BY <1>3, Zenon DEF StartCompletes, UploadOk, Logout, LicenseAnswers, ShowMainView, login
<1>10. Snapshot \/ SnapshotAgain \/ UploadFails \/ UNCHANGED vars
       => UNCHANGED <<root, listening, hud, requests>>
  BY Zenon DEF Snapshot, SnapshotAgain, UploadFails, login, vars
<1> QED BY <1>1, <1>2, <1>4, <1>5, <1>6, <1>7, <1>8, <1>9, <1>10, Zenon
        DEF Next, Kill, KillInSave, Reinstall

\* The progress view is up only while an answer is to come that takes it down, also
\* when another press made a new signal under it (Session.HudHasCause): the safety
\* half of LoginHudGoes.
THEOREM HudIsAnswered == Spec => []HudHasCause
<1>1. Init => HudHasCause
  BY Zenon DEF Init, HudHasCause
<1> QED BY <1>1, TypeInit, TypeStep, HudStep, PTL DEF Spec

LEMMA KeychainStep == KeychainAgrees /\ [Next]_vars => KeychainAgrees'
<1> SUFFICES ASSUME KeychainAgrees, [Next]_vars PROVE KeychainAgrees'
  OBVIOUS
<1> USE DEF KeychainAgrees, LoggedOut, IsLogined
<1>1. CASE UNCHANGED <<info, keychain>>
  BY <1>1
<1>2. CASE Save(info')
  BY <1>2 DEF Save
<1>3. ASSUME NEW k, NEW flag, Launched(k, flag)
      PROVE  KeychainAgrees'
  BY <1>3 DEF Launched, Kept, Loaded
<1>4. Logout \/ (\E a \in Accounts, f \in BOOLEAN : LoginOk(a, f)) => Save(info')
  BY DEF Logout, LoginOk
<1>5. Press \/ WeChatResponds \/ LoginFails \/ StartCompletes \/ Snapshot \/ SnapshotAgain
      \/ UploadOk \/ UploadFails \/ (\E ok \in BOOLEAN : LicenseAnswers(ok)) \/ UNCHANGED vars
      => UNCHANGED <<info, keychain>>
  BY DEF Press, WeChatResponds, LoginFails, StartCompletes, Snapshot, SnapshotAgain,
         UploadOk, UploadFails, LicenseAnswers, vars
<1> QED BY <1>1, <1>2, <1>3, <1>4, <1>5 DEF Next, Kill, KillInSave, Reinstall

\* Memory and keychain never hold two sessions, and a restart finds the same one or
\* none (Session.KeychainAgrees).
THEOREM KeychainNeverDiffers == Spec => []KeychainAgrees
<1>1. Init => KeychainAgrees
  BY DEF Init, KeychainAgrees, LoggedOut, IsLogined
<1> QED BY <1>1, KeychainStep, PTL DEF Spec
=============================================================================
