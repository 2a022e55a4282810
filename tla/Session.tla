------------------------------- MODULE Session -------------------------------
(***************************************************************************)
(* Who is logged in and what the window shows: RSLoginService, the         *)
(* keychain, WXApiService, RSLaunchService, AppDelegate's choice of the    *)
(* root view, the login view and face registration.                        *)
(*                                                                         *)
(* WeChat, the backend, the face SDK's licence server and the user answer  *)
(* in any order and at any time, so the answers to one screen arrive on    *)
(* another.  Every action is a callback on the main queue, or a block run  *)
(* there by dispatch_sync.  The sync that a login or a launch begins is    *)
(* module Sync's.                                                          *)
(*                                                                         *)
(* Assumed of what the code does not look at: deleting an item of the      *)
(* keychain succeeds, and an answer to a login without an error has a      *)
(* session key, so that a session exists exactly when there is a uid.      *)
(***************************************************************************)
EXTENDS Naturals

CONSTANTS
  Accounts,     \* the accounts WeChat and the backend may log in
  Nobody,       \* the uid "" and the session key nil
  Nothing,      \* no item in the keychain
  MaxPending,   \* bound: logins and licences under way at once
  MaxUploads    \* bound: face uploads under way at once

ASSUME SessionAssumption ==
  /\ Nobody \notin Accounts
  /\ MaxPending \in Nat /\ MaxUploads \in Nat

\* RSLoginInfoModel: the account, and whether the backend asked it to register
\* a face (opCode, which clear leaves alone).
Infos == [uid : Accounts \cup {Nobody}, face : BOOLEAN]

ASSUME NothingAssumption == Nothing \notin Infos

VARIABLES
  info,       \* RSLoginService.loginInfo
  keychain,   \* the item of the keychain, which outlives the app
  root,       \* the window's root view
  starting,   \* the start request, answered on a background queue, is under way
  auths,      \* WeChat authorisations without a response
  requests,   \* login requests without an answer
  listening,  \* the login view on the screen listens to _loginSignal
  hud,        \* its progress view is up
  needLicense,  \* what the face SDK of this installation says: it needs a
              \* licence from the network
  license,    \* licence callbacks to come
  camera,     \* the face view looks for a face
  frames,     \* frames with a face the detector had in hand when it stopped
  uploads,    \* face uploads without an answer
  granted     \* history: whom the last login answer admitted

vars == <<info, keychain, root, starting, auths, requests, listening,
          hud, needLicense, license, camera, frames, uploads, granted>>
login == <<auths, requests>>
face == <<license, frames, uploads>>

LoggedOut == [uid |-> Nobody, face |-> FALSE]
IsLogined(i) == i.uid # Nobody

TypeOK ==
  /\ info \in Infos
  /\ keychain \in Infos \cup {Nothing}
  /\ root \in {"start", "login", "main", "face"}
  /\ starting \in BOOLEAN
  /\ auths \in Nat /\ requests \in Nat
  /\ listening \in BOOLEAN /\ hud \in BOOLEAN
  /\ needLicense \in BOOLEAN
  /\ license \in Nat
  /\ camera \in BOOLEAN
  /\ frames \in 0..1
  /\ uploads \in 0..MaxUploads
  /\ granted \in Accounts \cup {Nobody}

(***************************************************************************)
(* The root view.  A login view that is replaced no longer listens, and a  *)
(* login view is not shown twice.  A face view starts with its camera on.  *)
(***************************************************************************)
Shows(view) ==
  /\ root' = view
  /\ camera' = (view = "face")

LeavesLogin(view) ==
  /\ listening' = (listening /\ root = "login" /\ view = "login")
  /\ hud' = (hud /\ root = "login" /\ view = "login")

MainOrLogin(i) == IF IsLogined(i) THEN "main" ELSE "login"

ShowMainView(i) == Shows(MainOrLogin(i)) /\ LeavesLogin(MainOrLogin(i))

\* Mutant: a licence that is still valid is not passed on.
ShowRegisterFaceViewOnce(i) ==
  \/ needLicense /\ license' = license + 1 /\ UNCHANGED <<root, camera>>
  \/ UNCHANGED <<root, camera, license>>

\* The licence is taken from the network, or still valid and at hand.  With an SDK
\* that needs none from the network, nothing is shown.
ShowRegisterFaceView(i) ==
  \/ needLicense /\ license' = license + 1 /\ UNCHANGED <<root, camera>>
  \/ needLicense /\ Shows("face") /\ UNCHANGED license
  \/ ~needLicense /\ UNCHANGED <<root, camera, license>>

\* Mutant: the licence's callback does not look who is logged in.
FaceOrMainUnchecked(ok) == IF ok THEN "face" ELSE MainOrLogin(info)

\* Mutant: a refused licence leaves the view as it is.
FaceOrMainIfGranted(ok) ==
  IF ~ok THEN root ELSE IF IsLogined(info) THEN "face" ELSE MainOrLogin(info)

\* The licence: the view is chosen by who is logged in when it comes.
FaceOrMain(ok) == IF ok /\ IsLogined(info) THEN "face" ELSE MainOrLogin(info)

(***************************************************************************)
(* A new process.  The keychain outlives the app, a flag in NSUserDefaults *)
(* does not: without it the keychain's item is from an earlier             *)
(* installation and is deleted.                                            *)
(***************************************************************************)
Kept(k, flag) == IF flag THEN k ELSE Nothing

\* The item, unless reading it fails.
Loaded(k) == {LoggedOut} \cup ({k} \ {Nothing})

Launched(k, flag) ==
  /\ keychain' = Kept(k, flag)
  /\ info' \in Loaded(Kept(k, flag))
  /\ root' = IF IsLogined(info') THEN "start" ELSE "login"
  /\ starting' = TRUE
  /\ auths' = 0 /\ requests' = 0 /\ license' = 0 /\ frames' = 0 /\ uploads' = 0
  /\ listening' = FALSE /\ hud' = FALSE /\ camera' = FALSE

Init ==
  /\ info = LoggedOut /\ keychain = Nothing
  /\ root = "login" /\ starting = TRUE
  /\ auths = 0 /\ requests = 0 /\ license = 0 /\ frames = 0 /\ uploads = 0
  /\ listening = FALSE /\ hud = FALSE /\ camera = FALSE
  /\ needLicense \in BOOLEAN
  /\ granted = Nobody

\* The start request's completion.
StartCompletes ==
  /\ starting
  /\ starting' = FALSE
  /\ ShowMainView(info)
  /\ UNCHANGED <<info, keychain, login, face, needLicense, granted>>

(***************************************************************************)
(* Logging in.  Every press makes a new _loginSignal, also one while the   *)
(* progress view is up, which lets touches through; what WeChat and the    *)
(* backend send goes to the signal of the moment, and its first error or   *)
(* completion ends it.                                                     *)
(***************************************************************************)
Press ==
  /\ root = "login"
  /\ auths + requests + license < MaxPending
  /\ auths' = auths + 1
  /\ listening' = TRUE
  /\ UNCHANGED <<info, keychain, root, starting, requests, hud, camera, face, needLicense, granted>>

\* Any response of WeChat's is passed on, a refusal too.
WeChatResponds ==
  /\ auths > 0
  /\ auths' = auths - 1
  /\ requests' = requests + 1
  /\ hud' = (hud \/ listening)
  /\ UNCHANGED <<info, keychain, root, starting, listening, camera, face, needLicense, granted>>

\* Mutant: a request that ends twice, without the return after its error.
AnsweredTwice == requests > 0 /\ requests' = requests - 2

Answered == requests > 0 /\ requests' = requests - 1

SignalEnds == listening' = FALSE /\ hud' = FALSE

\* Mutant: a save that does not delete; adding fails when there is an item.
SaveAddingOnly(i) == keychain' = IF keychain = Nothing THEN i ELSE keychain

\* FPKeychainUtils save deletes and adds; nobody looks whether the adding worked.
Save(i) == keychain' \in {i, Nothing}

LoginOk(a, f) ==
  /\ Answered
  /\ info' = [uid |-> a, face |-> f]
  /\ Save(info')
  /\ granted' = a
  /\ IF f THEN ShowRegisterFaceView(info') ELSE Shows(MainOrLogin(info')) /\ UNCHANGED license
  /\ SignalEnds
  /\ UNCHANGED <<starting, auths, frames, uploads, needLicense>>

\* Mutant: the error of a login request is not passed on.
LoginFailsSilently ==
  /\ Answered
  /\ UNCHANGED <<info, keychain, root, starting, auths, listening, hud, camera, face, needLicense, granted>>

LoginFails ==
  /\ Answered
  /\ SignalEnds
  /\ UNCHANGED <<info, keychain, root, starting, auths, camera, face, needLicense, granted>>

\* In the settings, which the main view leads to.
Logout ==
  /\ root = "main"
  /\ info' = [info EXCEPT !.uid = Nobody]
  /\ Save(info')
  /\ granted' = Nobody
  /\ Shows("login") /\ LeavesLogin("login")
  /\ UNCHANGED <<starting, login, face, needLicense>>

(***************************************************************************)
(* Face registration.                                                      *)
(***************************************************************************)
LicenseAnswers(ok) ==
  /\ license > 0
  /\ license' = license - 1
  /\ Shows(FaceOrMain(ok)) /\ LeavesLogin(FaceOrMain(ok))
  /\ UNCHANGED <<info, keychain, starting, login, frames, uploads, needLicense, granted>>

\* A good face: the camera stops and the picture is sent.  The detector may
\* have another frame in hand.
Snapshot ==
  /\ root = "face" /\ camera
  /\ uploads < MaxUploads
  /\ camera' = FALSE
  /\ frames' \in 0..1
  /\ uploads' = uploads + 1
  /\ UNCHANGED <<info, keychain, root, starting, login, listening, hud, license, needLicense, granted>>

SnapshotAgain ==
  /\ frames > 0
  /\ uploads < MaxUploads
  /\ frames' = frames - 1
  /\ uploads' = uploads + 1
  /\ camera' = FALSE
  /\ UNCHANGED <<info, keychain, root, starting, login, listening, hud, license, needLicense, granted>>

UploadOk ==
  /\ uploads > 0
  /\ uploads' = uploads - 1
  /\ ShowMainView(info)
  /\ UNCHANGED <<info, keychain, starting, login, license, frames, needLicense, granted>>

\* The view that sent it starts its camera again; it may be gone.
UploadFails ==
  /\ uploads > 0
  /\ uploads' = uploads - 1
  /\ camera' \in {camera, root = "face"}
  /\ UNCHANGED <<info, keychain, root, starting, login, listening, hud, license, frames, needLicense, granted>>

(***************************************************************************)
(* The process is killed, between callbacks or between delete and add of a *)
(* save, and started again; or the app is deleted and installed again.     *)
(***************************************************************************)
Kill == Launched(keychain, TRUE) /\ UNCHANGED <<needLicense, granted>>

KillInSave ==
  /\ requests > 0 \/ root = "main"
  /\ Launched(Nothing, TRUE)
  /\ granted' = Nobody
  /\ UNCHANGED needLicense

\* It may come with another SDK.
Reinstall == Launched(keychain, FALSE) /\ granted' = Nobody /\ needLicense' \in BOOLEAN

Next ==
  \/ StartCompletes \/ Press \/ WeChatResponds \/ LoginFails \/ Logout
  \/ \E a \in Accounts, f \in BOOLEAN : LoginOk(a, f)
  \/ \E ok \in BOOLEAN : LicenseAnswers(ok)
  \/ Snapshot \/ SnapshotAgain \/ UploadOk \/ UploadFails
  \/ Kill \/ KillInSave \/ Reinstall

Spec == Init /\ [][Next]_vars

\* AFNetworking answers or fails every request, the licence server is answered
\* for by its SDK, and the main queue takes the start request's block.
Fairness ==
  /\ WF_vars(StartCompletes)
  /\ WF_vars(LoginFails \/ \E a \in Accounts, f \in BOOLEAN : LoginOk(a, f))
  /\ WF_vars(\E ok \in BOOLEAN : LicenseAnswers(ok))

FairSpec == Spec /\ Fairness

(***************************************************************************)
(* Properties.                                                             *)
(***************************************************************************)
\* No session comes back: memory and keychain hold the session the last login
\* answer granted or none, also after a logout, a save that failed or was cut
\* short by a kill, and a new installation (RSLoginService.m:34-47, 53-55,
\* 130-138, FPKeychainUtils.m:31-40).
SessionIsGranted ==
  /\ info.uid \in {Nobody, granted}
  /\ keychain # Nothing => keychain.uid \in {Nobody, granted}

\* Whoever is logged out sees the login view, whichever late callback chose
\* the view last (AppDelegate.m:221-230, 249-286, 307-332).
LoggedOutSeesLogin == ~IsLogined(info) => root = "login"

\* Whoever is logged in sees the login view only while the licence for the
\* face view is asked for, or because the backend asked for a face and the SDK
\* needs no licence, when the code shows nothing (AppDelegate.m:69-76, 232-295).
LoginViewHasCause ==
  root = "login" /\ IsLogined(info) => license > 0 \/ (~needLicense /\ info.face)

\* The code leaves that account at the login view until the app is started again
\* (AppDelegate.m:290-292).
ShutOut == ~needLicense /\ info.face /\ root = "login" /\ IsLogined(info) /\ ~starting

\* ... and everybody else gets in (AppDelegate.m:56-76).
GetsIn == root \in {"start", "login"} /\ IsLogined(info) /\ ~ShutOut
            ~> root \in {"main", "face"} \/ ~IsLogined(info)

\* While there is a session in memory the keychain holds the same one or nothing:
\* a restart between any two callbacks finds no other (RSLoginService.m:34-47,
\* 130-138).
KeychainAgrees == IsLogined(info) => keychain \in {info, Nothing}

\* Whoever is logged in and still sees the launch view or the login view has a
\* callback to come that chooses another, or is shut out (AppDelegate.m:56-76,
\* 232-295).
HasWayIn == root \in {"start", "login"} /\ IsLogined(info)
              => starting \/ license > 0 \/ ShutOut

\* The progress view is up only while a request is under way whose answer goes
\* to the signal that the view on the screen listens to (WXApiService.m:33-49,
\* RSLoginViewController.m:139-150).
HudHasCause ==
  /\ listening => root = "login"
  /\ hud => listening /\ requests > 0

\* The login view's progress view goes, however many presses and responses
\* overlapped: no answer is sent to a signal the view no longer listens to
\* (WXApiService.m:33-49, 67-85, RSLoginViewController.m:139-150).
LoginHudGoes == hud ~> ~hud
=============================================================================
