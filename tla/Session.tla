------------------------------ MODULE Session ------------------------------
(***************************************************************************)
(* Who is logged in: the login, registration and account screens of one    *)
(* device, the singletons they share and the requests they wait for.       *)
(*                                                                         *)
(* NetworkingService, LoginNetworking and Account are singletons that tell *)
(* the answer of a request to whichever screen stands in a delegate slot   *)
(* when it comes.  Screens put themselves there when they are loaded, and  *)
(* are not put back when a later screen has gone; a slot keeps its screen  *)
(* alive after it was dismissed.                                           *)
(*                                                                         *)
(* A user stands for the account, its telephone number and its address; a  *)
(* "free" user for a number nobody has.  Passwords and codes are right or  *)
(* wrong.  Names, photos and the shown number are left out.                *)
(***************************************************************************)
EXTENDS Naturals, Sequences, FiniteSets

CONSTANTS
    User,       \* accounts, there already or to come
    None,       \* nobody, the empty string
    Nobody,     \* a number that is typed as the new one: nobody has it yet
    MaxPending, \* bound: requests on their way
    MaxStrays   \* bound: on strays

ASSUME SessionAssumption ==
    /\ None \notin User /\ Nobody \notin User /\ None # Nobody
    /\ MaxPending \in Nat \ {0} /\ MaxStrays \in Nat

VARIABLES
    \* Firebase
    status,     \* accounts: "free", "half" (number only), "live", "deleted"
    profile,    \* users with a node under "users"
    \* Kept on the device
    loggedIn,   \* UserDefaults: SettingOnMap.currentuserID
    authUser,   \* keychain: Auth.auth().currentUser
    sentTo,     \* UserDefaults: authVerificationID, by the number it is for
    \* The process
    stack,      \* full screens, each presented by the one below
    const,      \* the static variables of Const
    slot,       \* the delegates, by the place of their screen
    account,    \* Account.shared: id, and whose address "email" is
    pending,    \* requests, with the result once the service has taken them
    \* For the properties
    strays      \* how often the user went on before an answer had come

vars == <<status, profile, loggedIn, authUser, sentTo, stack, const, slot,
          account, pending, strays>>

-----------------------------------------------------------------------------
(* Screens *)

Login    == [screen |-> "login", pane |-> "main", busy |-> FALSE, appearing |-> TRUE]
Register == [screen |-> "register", pane |-> "phone", busy |-> FALSE]
Tabs     == [screen |-> "tabs", opened |-> FALSE, pushed |-> << >>]

\* Pushed on the account screen.  which: the button means the second thing.
Change(row)  == [screen |-> "change", which |-> FALSE, row |-> row]
New          == [screen |-> "new", which |-> FALSE]
Sheet(which) == [screen |-> "sheet", which |-> which]

Place(level, depth) == [level |-> level, depth |-> depth]
Gone == Place(0, 0)         \* no screen, or one that nothing shows any more
GoneSheet == Place(0, 1)    \* the like, where it is a Sheet: it still acts
GoneLogin == Place(0, 2)    \* the like, of a login screen
Out == {Gone, GoneSheet, GoneLogin}

Top == Len(stack)
At(p) == IF p.depth = 0 THEN stack[p.level] ELSE stack[p.level].pushed[p.depth]
ScreenOf(p) == IF p.level = 0 THEN "gone" ELSE At(p).screen
Depth(i) == IF stack[i].screen = "tabs" THEN Len(stack[i].pushed) ELSE 0

Stands(p, s) ==
    /\ p.level \in 1..Len(s)
    /\ p.depth <= IF s[p.level].screen = "tabs" THEN Len(s[p.level].pushed) ELSE 0

OutOf(screen) == CASE screen = "sheet" -> GoneSheet
                   [] screen = "login" -> GoneLogin
                   [] OTHER -> Gone

\* Screens have gone from the stack: their delegates stay, but out of sight.
Detach ==
    slot' = [d \in DOMAIN slot |->
                IF slot[d].level = 0 \/ Stands(slot[d], stack') THEN slot[d]
                ELSE OutOf(ScreenOf(slot[d]))]

-----------------------------------------------------------------------------
(* Requests *)

Kind == {"sendCode", "check", "login", "link", "load",
         "reauth", "updatePhone", "updateEmail", "signIn", "delete"}
Request == [kind : Kind, user : User \cup {None, Nobody}, result : {"sent", "ok"}]
Ask(kind, u) == [kind |-> kind, user |-> u, result |-> "sent"]

Send(kind, u) ==
    /\ Cardinality(pending) < MaxPending
    /\ Ask(kind, u) \notin pending
    /\ pending' = pending \cup {Ask(kind, u)}

\* For the properties: the user does something before the answer has come.
GoOn ==
    /\ strays' = strays + IF \E r \in pending : r.kind # "load" THEN 1 ELSE 0
    /\ strays' <= MaxStrays

Answered(r, with) == pending' = (pending \ {r}) \cup {with}

\* What the screens and the slots can hold.
LoginScreen == [screen : {"login"}, pane : {"main", "email", "phone", "code"},
                busy : BOOLEAN, appearing : BOOLEAN]
RegisterScreen == [screen : {"register"}, pane : {"phone", "code", "email", "info"},
                   busy : BOOLEAN]
PushedScreen ==
         [screen : {"change"}, which : BOOLEAN, row : {"phone", "email"}]
    \cup [screen : {"new", "sheet"}, which : BOOLEAN]
TabsScreen == [screen : {"tabs"}, opened : BOOLEAN, pushed : Seq(PushedScreen)]

PlaceSet == [level : Nat, depth : Nat]
Slots == [showChecked : PlaceSet, showAlertDelegate : PlaceSet, loginDelegate : PlaceSet,
          accountDelegateForConfirmation : PlaceSet, accountDelegate : PlaceSet]

TypeOK ==
    /\ status \in [User -> {"free", "half", "live", "deleted"}]
    /\ profile \in SUBSET User
    /\ loggedIn \in User \cup {None} /\ authUser \in User \cup {None}
    /\ sentTo \in User \cup {None, Nobody}
    /\ const \in [didAppearLogin : BOOLEAN, updateDelete : BOOLEAN, updatePhoneEmail : BOOLEAN]
    /\ account \in [id : User \cup {None}, email : User \cup {None}]
    /\ pending \in SUBSET Request
    /\ stack \in Seq(LoginScreen \cup RegisterScreen \cup TabsScreen) /\ stack # << >>
    /\ \A i, j \in DOMAIN stack :
          stack[i].screen = "login" /\ stack[j].screen = "login" => i = j
    /\ \A i \in DOMAIN stack :
          stack[i].screen = "register" => i = Top /\ i > 1 /\ stack[i - 1].screen = "login"
    /\ slot \in Slots
    /\ \A d \in DOMAIN slot : slot[d] \in Out \/ Stands(slot[d], stack)
    /\ strays \in 0..(MaxStrays + 1)

-----------------------------------------------------------------------------
(* The start of the application *)

NoDelegates ==
    [showChecked |-> Gone, showAlertDelegate |-> Gone, loginDelegate |-> Gone,
     accountDelegateForConfirmation |-> Gone, accountDelegate |-> Gone]

\* LoginViewController.viewDidLoad, at a level of the stack.
WithLogin(s, level) ==
    [s EXCEPT !.loginDelegate = Place(level, 0), !.showChecked = Place(level, 0)]

Init ==
    /\ status \in [User -> {"free", "live"}]
    /\ profile = {u \in User : status[u] = "live"}
    /\ loggedIn = None /\ authUser = None /\ sentTo = None
    /\ stack = <<Login>>
    /\ slot = WithLogin(NoDelegates, 1)
    /\ const = [didAppearLogin |-> FALSE, updateDelete |-> FALSE, updatePhoneEmail |-> FALSE]
    /\ account = [id |-> None, email |-> None]
    /\ pending = {}
    /\ strays = 0

\* Mutant of Relaunch: the flags outlive the process, as the id does.
RelaunchKeepingConst ==
    /\ UNCHANGED const
    /\ GoOn
    /\ \/ /\ loggedIn # None
          /\ stack' = <<Tabs>>
          /\ slot' = NoDelegates
          /\ account' = [id |-> loggedIn, email |-> None]
          /\ pending' = {Ask("load", loggedIn)}
       \/ /\ loggedIn = None
          /\ stack' = <<Login>>
          /\ slot' = WithLogin(NoDelegates, 1)
          /\ account' = [id |-> None, email |-> None]
          /\ pending' = {}
    /\ UNCHANGED <<status, profile, loggedIn, authUser, sentTo>>

\* The process ends and is started again: whoever is logged in gets the tabs.
Relaunch ==
    /\ const' = [didAppearLogin |-> FALSE, updateDelete |-> FALSE, updatePhoneEmail |-> FALSE]
    /\ GoOn
    /\ \/ /\ loggedIn # None
          /\ stack' = <<Tabs>>
          /\ slot' = NoDelegates
          /\ account' = [id |-> loggedIn, email |-> None]
          /\ pending' = {Ask("load", loggedIn)}
       \/ /\ loggedIn = None
          /\ stack' = <<Login>>
          /\ slot' = WithLogin(NoDelegates, 1)
          /\ account' = [id |-> None, email |-> None]
          /\ pending' = {}
    /\ UNCHANGED <<status, profile, loggedIn, authUser, sentTo>>

-----------------------------------------------------------------------------
(* LoginViewController *)

service == <<status, profile>>
kept    == <<loggedIn, authUser, sentTo>>

OnLogin(pane) ==
    /\ stack[Top].screen = "login" /\ stack[Top].pane \in pane
    /\ ~ stack[Top].busy /\ ~ stack[Top].appearing

\* isEnabledEverything, and the pane shown.
Busy(b) == stack' = [stack EXCEPT ![Top].busy = b]
Show(pane) == stack' = [stack EXCEPT ![Top].pane = pane]

\* Mutant of ViewDidAppear: the tabs without loadData.
ViewDidAppearUnloaded ==
    /\ stack[Top].screen = "login" /\ stack[Top].appearing
    /\ const' = [const EXCEPT !.didAppearLogin = TRUE]
    /\ stack' = LET shown == [stack EXCEPT ![Top].appearing = FALSE]
                IN  IF loggedIn = None THEN shown
                    ELSE Append([shown EXCEPT ![Top].pane = "main"], Tabs)
    /\ UNCHANGED <<service, kept, slot, account, pending, strays>>

\* Mutant of ViewDidAppear: the screen that has registered is not asked.
ViewDidAppearStays ==
    /\ stack[Top].screen = "login" /\ stack[Top].appearing
    /\ const' = [const EXCEPT !.didAppearLogin = TRUE]
    /\ stack' = [stack EXCEPT ![Top].appearing = FALSE]
    /\ UNCHANGED <<service, kept, slot, account, pending, strays>>

\* viewDidAppear: somebody has logged in on the screen that has gone.
ViewDidAppear ==
    /\ stack[Top].screen = "login" /\ stack[Top].appearing
    /\ const' = [const EXCEPT !.didAppearLogin = TRUE]
    /\ LET shown == [stack EXCEPT ![Top].appearing = FALSE] IN
         \/ /\ loggedIn = None
            /\ stack' = shown
            /\ UNCHANGED <<account, pending>>
         \/ /\ loggedIn # None                      \* loginSucceededAfterRegistration
            /\ stack' = Append([shown EXCEPT ![Top].pane = "main"], Tabs)
            /\ account' = [account EXCEPT !.id = loggedIn]
            /\ pending' = pending \cup {Ask("load", loggedIn)}
    /\ UNCHANGED <<service, kept, slot, strays>>

\* openPhoneView, openEmailView; openMainCustomView; disappearSecondPhone.
SwitchPane ==
    /\ \/ OnLogin({"main"}) /\ \E pane \in {"email", "phone"} : Show(pane)
       \/ OnLogin({"email", "phone", "code"}) /\ Show("main")
       \/ OnLogin({"code"}) /\ Show("phone")
    /\ UNCHANGED <<service, kept, const, slot, account, pending, strays>>

LogIn(u) ==
    /\ OnLogin({"email"})
    /\ Busy(TRUE)
    /\ Send("login", u)
    /\ GoOn
    /\ UNCHANGED <<service, kept, const, slot, account>>

\* sendCodeNet: showChecked stays whose it is.
SendCode(u) ==
    /\ OnLogin({"phone"})
    /\ Busy(TRUE)
    /\ Send("sendCode", u)
    /\ GoOn
    /\ UNCHANGED <<service, kept, const, slot, account>>

CheckCode ==
    /\ OnLogin({"code"})
    /\ Busy(TRUE)
    /\ slot' = [slot EXCEPT !.showChecked = Place(Top, 0)]
    /\ Send("check", sentTo)
    /\ GoOn
    /\ UNCHANGED <<service, kept, const, account>>

OpenRegistration ==
    /\ OnLogin({"main"})
    /\ const' = [const EXCEPT !.didAppearLogin = FALSE]
    /\ stack' = Append(stack, Register)
    /\ slot' = [slot EXCEPT !.showChecked = Place(Top + 1, 0),
                            !.showAlertDelegate = Place(Top + 1, 0)]
    /\ UNCHANGED <<service, kept, account, pending, strays>>

\* loginSucceeded, at the login screen of some level: the tabs come up if
\* nothing covers it.
LoginSucceeded(level, u) ==
    LET ready == [stack EXCEPT ![level].pane = "main", ![level].busy = FALSE] IN
    /\ stack' = IF level = Top THEN Append(ready, Tabs) ELSE ready
    /\ account' = [account EXCEPT !.id = u]
    /\ UNCHANGED slot

-----------------------------------------------------------------------------
(* PhoneAuthViewContoller *)

OnRegister(pane) ==
    /\ stack[Top].screen = "register" /\ stack[Top].pane \in pane /\ ~ stack[Top].busy

\* dismiss: the login screen below will appear.
EndRegistration ==
    /\ stack' = [SubSeq(stack, 1, Top - 1) EXCEPT ![Top - 1].appearing = TRUE]
    /\ Detach

RegisterSendCode(u) ==
    /\ OnRegister({"phone"})
    /\ Busy(TRUE)
    /\ Send("sendCode", u)
    /\ GoOn
    /\ UNCHANGED <<service, kept, const, slot, account>>

RegisterCheckCode ==
    /\ OnRegister({"code"})
    /\ Busy(TRUE)
    /\ slot' = [slot EXCEPT !.showChecked = Place(Top, 0)]
    /\ Send("check", sentTo)
    /\ GoOn
    /\ UNCHANGED <<service, kept, const, account>>

\* disappearSecondPhone, or "Already have an account?".
RegisterBack ==
    /\ \/ OnRegister({"code"}) /\ Show("phone") /\ UNCHANGED slot
       \/ OnRegister({"phone", "code"}) /\ EndRegistration
    /\ GoOn
    /\ UNCHANGED <<service, kept, const, account, pending>>

\* linkWithCredential, with passwords that agree: the screen is disabled first,
\* and nothing is sent for nobody.
LinkWithCredential ==
    /\ OnRegister({"email"})
    /\ Busy(TRUE)
    /\ \/ authUser # None /\ Send("link", authUser)
       \/ authUser = None /\ UNCHANGED pending
    /\ GoOn
    /\ UNCHANGED <<service, kept, const, slot, account>>

\* addUserInfo: without name and surname nothing is written, and the
\* screen is left all the same.
AddUserInfo ==
    /\ OnRegister({"info"})
    /\ profile' \in {profile, profile \cup ({authUser} \ {None})}
    /\ EndRegistration
    /\ UNCHANGED <<status, kept, const, account, pending, strays>>

-----------------------------------------------------------------------------
(* AccountViewController and the screens pushed on it *)

OnAccount(screens) ==
    /\ stack[Top].screen = "tabs" /\ stack[Top].opened
    /\ IF Depth(Top) = 0 THEN "account" \in screens
       ELSE stack[Top].pushed[Depth(Top)].screen \in screens

\* AccountViewController.viewDidLoad: the tab is opened for the first time.
OpenAccountTab ==
    /\ stack[Top].screen = "tabs" /\ ~ stack[Top].opened
    /\ stack' = [stack EXCEPT ![Top].opened = TRUE]
    /\ slot' = [slot EXCEPT !.accountDelegate = Place(Top, 0)]
    /\ UNCHANGED <<service, kept, const, account, pending, strays>>

\* Mutant of PresentLogin: a login screen again, whether there is one or not.
PresentLoginAgain(level) ==
    \/ level = Top /\ stack' = Append(stack, Login) /\ slot' = WithLogin(slot, Top + 1)
    \/ level # Top /\ UNCHANGED <<stack, slot>>

\* presentLoginViewController of the account screen of some level, which may
\* be covered, or gone: it dismisses what covers it, else itself.
PresentLogin(level) ==
    \/ /\ level # 0 /\ const.didAppearLogin /\ level < Top
       /\ stack' = SubSeq(stack, 1, level)
       /\ Detach
    \/ /\ level # 0 /\ const.didAppearLogin /\ level = Top /\ Top > 1
       /\ stack' = [SubSeq(stack, 1, Top - 1) EXCEPT ![Top - 1].appearing = TRUE]
       /\ Detach
    \/ /\ level # 0 /\ ~ const.didAppearLogin /\ level = Top
       /\ stack' = Append(stack, Login)
       /\ slot' = WithLogin(slot, Top + 1)
    \/ /\ \/ level = 0
          \/ const.didAppearLogin /\ level = Top /\ Top = 1
          \/ ~ const.didAppearLogin /\ level < Top
       /\ UNCHANGED <<stack, slot>>

\* exit: Firebase is not told.
Exit ==
    /\ OnAccount({"account"})
    /\ loggedIn' = None
    /\ PresentLogin(Top)
    /\ GoOn
    /\ UNCHANGED <<service, authUser, sentTo, const, account, pending>>

\* changeName, changeSurname, changeStatus: they write below Account's id.
EditProfile ==
    /\ OnAccount({"account"})
    /\ profile' = profile \cup ({account.id} \ {None})
    /\ UNCHANGED <<status, kept, stack, const, slot, account, pending, strays>>

Push(level, s) == stack' = [stack EXCEPT ![level].pushed = Append(@, s)]
Pushed(level) == Place(level, Depth(level) + 1)

\* changeNumber, changeEmail.
OpenChange(row) ==
    /\ OnAccount({"account"})
    /\ const' = [const EXCEPT !.updateDelete = row = "phone",
                              !.updatePhoneEmail = @ \/ row = "email"]
    /\ Push(Top, Change(row))
    /\ slot' = [slot EXCEPT !.showChecked = Pushed(Top), !.showAlertDelegate = Pushed(Top)]
    /\ UNCHANGED <<service, kept, account, pending, strays>>

\* deleteAccount
OpenDelete ==
    /\ OnAccount({"account"})
    /\ const' = [const EXCEPT !.updateDelete = TRUE]
    /\ Push(Top, Sheet(TRUE))
    /\ slot' = [slot EXCEPT !.accountDelegateForConfirmation = Pushed(Top),
                            !.showAlertDelegate = Pushed(Top)]
    /\ UNCHANGED <<service, kept, account, pending, strays>>

\* popToRootViewController at some level, and the back button.
PopTo(level, depth) ==
    /\ stack' = [stack EXCEPT ![level].pushed = SubSeq(@, 1, depth)]
    /\ Detach

Back ==
    /\ OnAccount({"change", "new", "sheet"})
    /\ PopTo(Top, Depth(Top) - 1)
    /\ GoOn
    /\ UNCHANGED <<service, kept, const, account, pending>>

\* nextTo of the three screens.  which is set before anything else, and stays
\* set when the number was wrong.
OnPushed(screen, which) ==
    /\ OnAccount({screen})
    /\ stack[Top].pushed[Depth(Top)].which = which

SecondThing == stack' = [stack EXCEPT ![Top].pushed[Depth(Top)].which = TRUE]

\* A call of Auth.auth().currentUser?. with the stored id, which is of use if
\* it is for the number n.
SendVerified(kind, n) ==
    \/ /\ authUser # None
       /\ Send(kind, IF sentTo = n THEN authUser ELSE None)
    \/ authUser = None /\ UNCHANGED pending

\* The number typed has to be the one Account has, which may be one of before:
\* whose it is by now is left open.
ChangeNext ==
    /\ \/ OnPushed("change", FALSE) /\ SecondThing /\ UNCHANGED pending     \* wrong number
       \/ /\ OnPushed("change", FALSE) /\ SecondThing
          /\ \E n \in User \cup {None, Nobody} : Send("sendCode", n)
       \/ OnPushed("change", TRUE) /\ UNCHANGED stack /\ SendVerified("reauth", authUser)
    /\ GoOn
    /\ UNCHANGED <<service, kept, const, slot, account>>

NewNext ==
    /\ \/ OnPushed("new", FALSE) /\ SecondThing /\ Send("sendCode", Nobody)
       \/ OnPushed("new", TRUE) /\ UNCHANGED stack /\ SendVerified("updatePhone", Nobody)
    /\ GoOn
    /\ UNCHANGED <<service, kept, const, slot, account>>

SheetNext ==
    /\ \/ OnPushed("sheet", FALSE) /\ authUser # None /\ Send("updateEmail", authUser)
       \/ OnPushed("sheet", TRUE) /\ Send("signIn", account.email)
    /\ GoOn
    /\ UNCHANGED <<service, kept, stack, const, slot, account>>

-----------------------------------------------------------------------------
(* Firebase takes a request *)

\* Signing in with a number makes an account where there is none.
SignedIn(n) ==
    IF n \in User /\ status[n] # "deleted" THEN {n}
    ELSE {u \in User : n # None /\ status[u] = "free"}

\* A code that is right signs in as u, an account made for it if need be.
SignInAs(r, u) ==
    /\ status' = [status EXCEPT ![u] = IF @ = "free" THEN "half" ELSE @]
    /\ Answered(r, [r EXCEPT !.user = u, !.result = "ok"])

ServeCheck(r) ==
    /\ r.kind = "check"
    /\ \E u \in SignedIn(r.user) : SignInAs(r, u)
    /\ UNCHANGED <<sentTo, account>>

\* A changed number, or address, is no longer the one known here.
ServeLive(r) ==
    /\ r.kind \in {"login", "signIn", "reauth", "updatePhone", "updateEmail"}
    /\ r.user \in User /\ status[r.user] = "live"
    /\ Answered(r, [r EXCEPT !.result = "ok"])
    /\ sentTo' = CASE r.kind = "updatePhone" /\ sentTo = Nobody -> r.user
                   [] r.kind = "updatePhone" /\ sentTo = r.user -> Nobody
                   [] OTHER -> sentTo
    /\ account' = [account EXCEPT !.email =
                     IF r.kind = "updateEmail" /\ @ = r.user THEN None ELSE @]
    /\ UNCHANGED status

\* The account gets its address, or is deleted.
ServeAccount(r) ==
    /\ \/ /\ r.kind = "link" /\ status[r.user] = "half"
          /\ status' = [status EXCEPT ![r.user] = "live"]
       \/ /\ r.kind = "delete" /\ status[r.user] = "live"
          /\ status' = [status EXCEPT ![r.user] = "deleted"]
    /\ Answered(r, [r EXCEPT !.result = "ok"])
    /\ UNCHANGED <<sentTo, account>>

Serve(r) ==
    /\ r.result = "sent"
    /\ ServeCheck(r) \/ ServeLive(r) \/ ServeAccount(r)
    /\ UNCHANGED <<profile, loggedIn, authUser, stack, const, slot, strays>>

-----------------------------------------------------------------------------
(* The completion handlers *)

Enabled(level) == [stack EXCEPT ![level].busy = FALSE]

\* showAlertDelegate.showAlert: the registration screen is enabled again.
ShowAlert ==
    LET p == slot.showAlertDelegate IN
    /\ stack' = IF ScreenOf(p) = "register" THEN Enabled(p.level) ELSE stack
    /\ UNCHANGED <<slot, account>>

\* showAlertDelegate.showNext: the next pane of the registration, or an address
\* that has changed to u's, as the text field has it by now.
ShowNext(from, u) ==
    LET p == slot.showAlertDelegate IN
    \/ /\ ScreenOf(p) = "register"
       /\ stack' = IF from = 1
                   THEN [Enabled(p.level) EXCEPT ![p.level].pane = "info"]
                   ELSE Enabled(p.level)
       /\ UNCHANGED <<slot, account>>
    \/ /\ ScreenOf(p) = "sheet"
       /\ \E e \in {u, None} : account' = [account EXCEPT !.email = e]
       /\ PopTo(p.level, 0)
    \/ /\ p = GoneSheet
       /\ \E e \in {u, None} : account' = [account EXCEPT !.email = e]
       /\ UNCHANGED <<stack, slot>>
    \/ /\ ScreenOf(p) \in {"gone", "change", "new"} /\ p # GoneSheet
       /\ UNCHANGED <<stack, slot, account>>

\* Mutant of SendCodeReturn: after an error nothing is enabled.
SendCodeReturnBusy(b) ==
    LET p == slot.showChecked IN
    /\ stack' = IF b /\ ScreenOf(p) \in {"login", "register"}
                THEN [Enabled(p.level) EXCEPT ![p.level].pane = IF @ = "phone" THEN "code" ELSE @]
                ELSE stack
    /\ UNCHANGED <<slot, account>>

\* showChecked.sendCodeReturn
SendCodeReturn(b) ==
    LET p == slot.showChecked IN
    /\ stack' = IF ScreenOf(p) \in {"login", "register"}
                THEN [Enabled(p.level) EXCEPT ![p.level].pane =
                        IF b /\ @ = "phone" THEN "code" ELSE @]
                ELSE stack
    /\ UNCHANGED <<slot, account>>

\* showChecked.checkingReturn, told b, with u logged in by now.
LoginChecked(r, b, u) ==
    LET p == slot.showChecked IN
    /\ ScreenOf(p) = "login"
    /\ \/ /\ b /\ u # None
          /\ LoginSucceeded(p.level, u)
          /\ pending' = (pending \ {r}) \cup {Ask("load", u)}
       \/ /\ ~ b \/ u = None
          /\ stack' = Enabled(p.level)
          /\ pending' = pending \ {r}
          /\ UNCHANGED <<slot, account>>

\* A login screen that has gone still loads the data of who is logged in.
GoneLoginChecked(r, b, u) ==
    /\ slot.showChecked = GoneLogin /\ b /\ u # None
    /\ account' = [account EXCEPT !.id = u]
    /\ pending' = (pending \ {r}) \cup {Ask("load", u)}
    /\ UNCHANGED <<stack, slot>>

RegisterChecked(r, b, u) ==
    LET p == slot.showChecked IN
    /\ ScreenOf(p) = "register"
    /\ \/ u # None /\ EndRegistration
       \/ /\ u = None
          /\ stack' = [Enabled(p.level) EXCEPT ![p.level].pane = IF b THEN "email" ELSE @]
          /\ UNCHANGED slot
    /\ pending' = pending \ {r}
    /\ UNCHANGED account

PushedChecked(r, b, u) ==
    LET p == slot.showChecked IN
    /\ \/ /\ ScreenOf(p) = "change" /\ b /\ const.updatePhoneEmail
          /\ Push(p.level, Sheet(const.updateDelete))
          /\ slot' = [slot EXCEPT !.accountDelegateForConfirmation = Pushed(p.level),
                                  !.showAlertDelegate = Pushed(p.level)]
       \/ /\ ScreenOf(p) = "change" /\ b /\ ~ const.updatePhoneEmail
          /\ Push(p.level, New)
          /\ slot' = [slot EXCEPT !.showChecked = Pushed(p.level),
                                  !.showAlertDelegate = Pushed(p.level)]
       \/ ScreenOf(p) = "new" /\ b /\ PopTo(p.level, 0)
       \/ /\ \/ ScreenOf(p) = "gone" /\ ~ (p = GoneLogin /\ b /\ u # None)
             \/ ScreenOf(p) \in {"change", "new"} /\ ~ b
          /\ UNCHANGED <<stack, slot>>
    /\ pending' = pending \ {r}
    /\ UNCHANGED account

CheckingReturn(r, b, u) ==
    \/ LoginChecked(r, b, u) \/ GoneLoginChecked(r, b, u)
    \/ RegisterChecked(r, b, u) \/ PushedChecked(r, b, u)

\* sendCode: the id is stored for whoever asks next.
SendCodeDone(r, b) ==
    /\ r.kind = "sendCode"
    /\ sentTo' = IF b THEN r.user ELSE sentTo
    /\ SendCodeReturn(b)
    /\ pending' = pending \ {r}
    /\ UNCHANGED <<service, loggedIn, authUser, const, strays>>

\* Mutant of CheckDone: whoever has signed in with his number is logged in.
CheckDoneAnybody(r, b) ==
    /\ r.kind = "check"
    /\ authUser' = IF b THEN r.user ELSE authUser
    /\ loggedIn' = IF b THEN r.user ELSE loggedIn
    /\ CheckingReturn(r, b, loggedIn')
    /\ UNCHANGED <<service, sentTo, const, strays>>

\* check: only an account that has an address is logged in.
CheckDone(r, b) ==
    /\ r.kind = "check"
    /\ authUser' = IF b THEN r.user ELSE authUser
    /\ loggedIn' = IF b /\ status[r.user] # "half" THEN r.user ELSE loggedIn
    /\ CheckingReturn(r, b, loggedIn')
    /\ UNCHANGED <<service, sentTo, const, strays>>

\* login, told to the login screen that was loaded last.
LoginDone(r, b) ==
    /\ r.kind = "login"
    /\ \/ /\ b
          /\ loggedIn' = r.user /\ authUser' = r.user
          /\ IF slot.loginDelegate.level # 0
             THEN LoginSucceeded(slot.loginDelegate.level, r.user)
             ELSE account' = [account EXCEPT !.id = r.user] /\ UNCHANGED <<stack, slot>>
          /\ pending' = (pending \ {r}) \cup {Ask("load", r.user)}
       \/ /\ ~ b
          /\ stack' = IF slot.loginDelegate.level # 0 THEN Enabled(slot.loginDelegate.level)
                      ELSE stack
          /\ pending' = pending \ {r}
          /\ UNCHANGED <<loggedIn, authUser, slot, account>>
    /\ UNCHANGED <<service, sentTo, const, strays>>

LinkDone(r, b) ==
    /\ r.kind = "link"
    /\ \/ /\ b
          /\ ShowNext(1, None)
          /\ loggedIn' = authUser
       \/ ~ b /\ ShowAlert /\ UNCHANGED loggedIn
    /\ pending' = pending \ {r}
    /\ UNCHANGED <<service, authUser, sentTo, const, strays>>

\* reauth, updatePhone
VerifiedDone(r, b) ==
    /\ r.kind \in {"reauth", "updatePhone"}
    /\ \/ b /\ CheckingReturn(r, TRUE, loggedIn)
       \/ ~ b /\ ShowAlert /\ pending' = pending \ {r}
    /\ UNCHANGED <<service, kept, const, strays>>

UpdateEmailDone(r, b) ==
    /\ r.kind = "updateEmail"
    /\ \/ b /\ ShowNext(0, r.user)
       \/ ~ b /\ ShowAlert
    /\ pending' = pending \ {r}
    /\ UNCHANGED <<service, kept, const, strays>>

\* loadData: the address is the one of whoever is signed in by now.
LoadDone(r, b) ==
    /\ r.kind = "load"
    /\ account' = IF b
                  THEN [account EXCEPT !.email =
                          IF authUser # None /\ status[authUser] = "live" THEN authUser ELSE None]
                  ELSE account
    /\ pending' = pending \ {r}
    /\ UNCHANGED <<service, kept, stack, const, slot, strays>>

\* deleteAccount: signed in again, the user that has been is deleted.
SignInDone(r, b) ==
    /\ r.kind = "signIn"
    /\ \/ /\ b
          /\ authUser' = r.user
          \* An address that is not of the user logged in counts as a stray.
          /\ strays' = IF r.user # loggedIn /\ strays = 0 THEN 1 ELSE strays
          /\ LET p == slot.accountDelegateForConfirmation IN
               IF ScreenOf(p) = "sheet" THEN PopTo(p.level, 0) ELSE UNCHANGED <<stack, slot>>
          /\ pending' = (pending \ {r}) \cup {Ask("delete", r.user)}
       \/ /\ ~ b
          /\ pending' = pending \ {r}
          /\ UNCHANGED <<authUser, stack, slot, strays>>
    /\ UNCHANGED <<service, loggedIn, sentTo, const, account>>

\* Mutant of Erase: the node under "users" stays.
EraseNothing == UNCHANGED profile

\* What goes with the deleted user is what is below Account's id by now.
Erase == profile' = profile \ {account.id}

\* Mutant of DeleteDone: only the screen changes.
DeleteDoneStillLoggedIn(r, b) ==
    /\ r.kind = "delete"
    /\ \/ /\ b
          /\ authUser' = IF authUser = r.user THEN None ELSE authUser
          /\ Erase
          /\ PresentLogin(slot.accountDelegate.level)
       \/ ~ b /\ UNCHANGED <<profile, authUser, stack, slot>>
    /\ pending' = pending \ {r}
    /\ UNCHANGED <<status, loggedIn, sentTo, const, account, strays>>

\* Mutant of DeleteDone: the node goes before the account has.
DeleteDoneFirstErased(r, b) ==
    /\ r.kind = "delete"
    /\ Erase
    /\ \/ /\ b
          /\ authUser' = IF authUser = r.user THEN None ELSE authUser
          /\ PresentLogin(slot.accountDelegate.level)
          /\ loggedIn' = None
       \/ ~ b /\ UNCHANGED <<loggedIn, authUser, stack, slot>>
    /\ pending' = pending \ {r}
    /\ UNCHANGED <<status, sentTo, const, account, strays>>

DeleteDone(r, b) ==
    /\ r.kind = "delete"
    /\ \/ /\ b
          /\ authUser' = IF authUser = r.user THEN None ELSE authUser
          /\ Erase
          /\ PresentLogin(slot.accountDelegate.level)
          /\ loggedIn' = None
       \/ ~ b /\ UNCHANGED <<profile, loggedIn, authUser, stack, slot>>
    /\ pending' = pending \ {r}
    /\ UNCHANGED <<status, sentTo, const, account, strays>>

Done(r, b) ==
    \/ SendCodeDone(r, b) \/ CheckDone(r, b) \/ LoginDone(r, b) \/ LinkDone(r, b)
    \/ VerifiedDone(r, b) \/ UpdateEmailDone(r, b) \/ LoadDone(r, b)
    \/ SignInDone(r, b) \/ DeleteDone(r, b)

\* The answer of a request comes: the service's, or an error if the request has
\* not reached it.  What changes nothing there is served as it is answered.
\* No answer comes while one screen gives way to another.
Handle(r) ==
    /\ ~ (stack[Top].screen = "login" /\ stack[Top].appearing)
    /\ \/ (r.result = "ok" \/ r.kind \in {"sendCode", "load"}) /\ Done(r, TRUE)
       \/ r.result = "sent" /\ Done(r, FALSE)

-----------------------------------------------------------------------------
Next ==
    \/ Relaunch \/ ViewDidAppear \/ SwitchPane \/ CheckCode \/ OpenRegistration
    \/ RegisterCheckCode \/ RegisterBack \/ LinkWithCredential \/ AddUserInfo
    \/ OpenAccountTab \/ Exit \/ EditProfile \/ OpenDelete \/ Back
    \/ ChangeNext \/ NewNext \/ SheetNext
    \/ \E u \in User : LogIn(u) \/ SendCode(u) \/ RegisterSendCode(u)
    \/ \E row \in {"phone", "email"} : OpenChange(row)
    \/ \E r \in pending : Serve(r) \/ Handle(r)

Spec == Init /\ [][Next]_vars

-----------------------------------------------------------------------------
(* Properties *)

\* Who is logged in, for the application, is who is signed in, for Firebase:
\* writes below the id and requests of the current user concern one account.
\* Only a deletion, which signs in with the address Account has at that time,
\* and a late answer can part them.
SessionIsSignedIn == (loggedIn # None /\ strays = 0) => authUser = loggedIn

\* Nobody is logged in whose registration stopped before the address: neither
\* by a code at the login screen nor by one at the registration screen.  Only
\* the answer to a link that a second code's answer has overtaken could do it.
LoggedInIsRegistered ==
    (loggedIn # None /\ strays = 0) => status[loggedIn] \in {"live", "deleted"}

\* Whatever overtakes what: a user whose registration is not complete is logged
\* in by nothing but the answer to the link of another one.
RegisteredUnlessOvertaken ==
    [][loggedIn' \notin {loggedIn, None} /\ status[loggedIn'] \notin {"live", "deleted"}
        => \E r \in pending \ pending' : r.kind = "link" /\ r.user # loggedIn']_vars

\* A login or registration screen with its buttons disabled, in showChecked: no
\* request whose answer enables it is on its way.
Unanswered(i) ==
    /\ i \in DOMAIN stack /\ stack[i].screen \in {"login", "register"} /\ stack[i].busy
    /\ slot.showChecked = Place(i, 0)
    /\ \A r \in pending :
          r.kind \notin {"sendCode", "check", IF stack[i].screen = "login" THEN "login" ELSE "link"}

\* Whatever is answered, and whenever: no screen in showChecked comes to wait for
\* nothing, but a registration whose user has been deleted when it asks to link.
BusyIsAnswered ==
    [][\A i \in DOMAIN stack' :
          Unanswered(i)' => \/ Unanswered(i)
                            \/ authUser = None /\ i = Top /\ OnRegister({"email"})]_vars

\* The account screen of somebody logged in writes below his own id, unless a
\* late answer has logged in, or shown the tabs of, somebody else.
EditsOwnProfile ==
    (stack[Top].screen = "tabs" /\ loggedIn # None /\ strays = 0) => account.id = loggedIn

\* The deletion of u is done, and the device is not told yet.
Untold(u) == \E r \in pending : r.kind = "delete" /\ r.result = "ok" /\ r.user = u

\* Who has deleted his account is logged out when the device is told.  He is still
\* logged in after that only if the process has ended in between, or if a late
\* answer has logged him in again.
StillIn(u) == loggedIn = u /\ status[u] = "deleted" /\ ~ Untold(u)
DeletedIsLoggedOut ==
    [][\A u \in User : StillIn(u)' => StillIn(u) \/ Relaunch \/ loggedIn # u]_vars

\* Nobody reads the profile of a user who has deleted his account: it outlives
\* the answer only if the process has ended in between, or Account was another's by
\* then, or it is written again.
StillRead(u) == u \in profile /\ status[u] = "deleted" /\ ~ Untold(u)
DeletedLeavesNoProfile ==
    [][\A u \in User :
          StillRead(u)' => StillRead(u) \/ Relaunch \/ account.id # u \/ u \notin profile]_vars

\* A profile goes only with the account: whoever is logged in by then, the node
\* that is removed below Account's id is that of a user who is gone.
LivingKeepProfile ==
    [][strays' = 0 => \A u \in profile \ profile' : status[u] = "deleted"]_vars

\* Nobody is asked to log in who is logged in: each answer that logs in
\* finds the screen that asked and takes it away.
LoginMeansLoggedOut ==
    (stack[Top].screen = "login" /\ ~ stack[Top].appearing /\ strays = 0) => loggedIn = None

\* Whoever has exited, or deleted his account, is off the tabs in that step, however
\* they came up: at a launch, by a login or after a registration.
TabsMeanLoggedIn == (stack[Top].screen = "tabs" /\ strays = 0) => loggedIn # None

\* What the row "change the phone" says: after its code comes the screen for the
\* new number.  (The code shows another one once the address was to be changed.)
ChangePhoneAsksForPhone ==
    \A i \in DOMAIN stack : \A k \in 2..Depth(i) :
        (stack[i].pushed[k - 1].screen = "change" /\ stack[i].pushed[k - 1].row = "phone")
            => stack[i].pushed[k].screen = "new"

=============================================================================
