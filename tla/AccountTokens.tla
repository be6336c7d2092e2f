---------------------------- MODULE AccountTokens ----------------------------
(***************************************************************************)
(* The account of one user: signing in by password, passkey and second     *)
(* factor, verification and change of the e-mail address, password reset,  *)
(* and the life of the second factor.  All of it goes through rows that    *)
(* may be used once: login tokens, MFA challenges, passkey challenges,     *)
(* mailed tokens and backup codes.  A request is a sequence of awaits, and *)
(* each of its reads and writes of the database is a step of its own.      *)
(***************************************************************************)
EXTENDS Naturals, FiniteSets

CONSTANTS
    Token,                      \* rows that can ever be issued
    NoToken,
    Request,                    \* requests under way at the same time
    Address,                    \* e-mail addresses
    MaxAttempts,                \* wrong codes a challenge allows
    MaxCounter,                 \* bound: signatures of the authenticator
    MaxRows,                    \* bound: UserTotp and PasskeyCredential rows
    Traffic                     \* sets of operations: what clients ask for

Asking == {"login", "resend", "forgot", "requestChange", "passkeyBegin",
           "enrollBegin"}
Spending == {"signin", "otp", "verify", "reset", "confirmChange",
             "passkeyFinish", "enrollFinish"}
Managing == {"setup", "confirm", "disable"}
Op == Asking \union Spending \union Managing

Others == {"setActive", "editAddress", "removePasskey"}

ASSUME TokenAssumption ==
    /\ NoToken \notin Token
    /\ IsFiniteSet(Request) /\ Address # {}
    /\ MaxAttempts \in Nat \ {0} /\ MaxCounter \in Nat /\ MaxRows \in Nat
    /\ Traffic \subseteq SUBSET (Op \union Others)

VARIABLES
    user,                       \* the User row
    totp,                       \* the UserTotp row; id 0: there is none
    credential,                 \* the PasskeyCredential row; id 0: none
    rows,                       \* ids given out: [totp, credential]
    tokens,                     \* all one-time rows
    requests,
    device,                     \* signatures the authenticator made
    effects,                    \* history: how often a token took effect
    guesses,                    \* history: wrong codes answered for a challenge
    traffic                     \* the operations of this behaviour

vars == <<user, totp, credential, rows, tokens, requests, device, effects,
          guesses, traffic>>

Kind == {"login", "mfa", "verify", "change", "reset", "passkey", "enroll",
         "backup"}

\* mailedTo is in the row of a "change" token only; of the others it is
\* where the token was sent.
TokenRow == [kind : Kind \union {"none"}, there : BOOLEAN, used : BOOLEAN,
             expired : BOOLEAN, attempts : Nat, mailedTo : Address]

\* edited: an administrator wrote the address or its mark.  proved: addresses
\* that a mailed token or the registration vouched for.
User == [active : BOOLEAN, verified : BOOLEAN, email : Address,
         edited : BOOLEAN, proved : SUBSET Address]

RequestState ==
    [op : Op \union {"none"},
     pc : {"idle", "totp", "issue", "mail", "mark", "active", "session",
           "write", "verified", "code", "burn", "wrong", "credential",
           "commit", "upsert", "clear", "enable", "drop"},
     token : Token \union {NoToken},   \* the token it was called with
     other : Token \union {NoToken},   \* a backup code, or the token it issued
     kind : Kind,                      \* what it is about to issue
     address : Address,
     row : Nat,                        \* id of a row it read
     counter : Nat]                    \* of the passkey assertion

\* Where a request of each operation can be between two awaits.
Steps(op) ==
    CASE op = "none" -> {"idle"}
      [] op = "login" -> {"totp", "issue"}
      [] op = "requestChange" -> {"issue", "mail"}
      [] op \in {"resend", "forgot", "passkeyBegin", "enrollBegin"} -> {"issue"}
      [] op = "signin" -> {"mark", "active", "session"}
      [] op = "otp" -> {"active", "code", "burn", "wrong", "mark", "issue"}
      [] op = "verify" -> {"mark", "verified", "issue"}
      [] op = "reset" -> {"mark", "write"}
      [] op = "confirmChange" -> {"mark", "active", "write"}
      [] op = "passkeyFinish" ->
           {"credential", "active", "commit", "totp", "issue"}
      [] op = "enrollFinish" -> {"active", "commit"}
      [] op = "setup" -> {"upsert", "clear"}
      [] op = "confirm" -> {"enable"}
      [] OTHER -> {"drop"}

Shape(me) ==
    /\ me.pc \in Steps(me.op)
    /\ me.op \notin Spending => me.token = NoToken
    /\ me.op \in Spending =>
         \/ me.token \in Token
         \/ me.op = "verify" /\ me.pc = "verified" /\ me.other \in Token
    /\ me.pc \in {"burn", "mail"} => me.other \in Token

TypeOK ==
    /\ user \in User
    /\ totp \in [id : Nat, enabled : BOOLEAN]
    /\ credential \in [id : Nat, counter : Nat]
    /\ rows \in [totp : Nat, credential : Nat]
    /\ tokens \in [Token -> TokenRow]
    /\ requests \in [Request -> RequestState]
    /\ \A r \in Request : Shape(requests[r])
    /\ device \in Nat
    /\ effects \in [Token -> Nat]
    /\ guesses \in [Token -> Nat]
    /\ traffic \in Traffic

-----------------------------------------------------------------------------
(* The tables. *)

Issued == {t \in Token : tokens[t].kind # "none"}

NewToken(kind, address) ==
    [kind |-> kind, there |-> TRUE, used |-> FALSE, expired |-> FALSE,
     attempts |-> 0, mailedTo |-> address]

Deleted(set) == [t \in Token |-> IF t \in set THEN [tokens[t] EXCEPT !.there = FALSE]
                                 ELSE tokens[t]]

BackupCodes == {t \in Token : tokens[t].kind = "backup" /\ tokens[t].there}

\* updateMany where usedAt is null: the row may have been used, or deleted
\* and replaced, since it was read; that it expired since is not looked at.
WrongTaken(t) == TRUE
Taken(t) == tokens[t].there /\ ~tokens[t].used

-----------------------------------------------------------------------------
(* Requests. *)

Somewhere == CHOOSE a \in Address : TRUE

Idle == [op |-> "none", pc |-> "idle", token |-> NoToken, other |-> NoToken,
         kind |-> "login", address |-> Somewhere, row |-> 0, counter |-> 0]

\* The kind of row that an operation spends, and that it issues.
Spends(op) ==
    CASE op = "signin" -> "login"         [] op = "otp" -> "mfa"
      [] op = "verify" -> "verify"        [] op = "reset" -> "reset"
      [] op = "confirmChange" -> "change" [] op = "passkeyFinish" -> "passkey"
      [] OTHER -> "enroll"

Issues(op) ==
    CASE op = "resend" -> "verify"        [] op = "forgot" -> "reset"
      [] op = "requestChange" -> "change" [] op = "passkeyBegin" -> "passkey"
      [] op = "enrollBegin" -> "enroll"   [] OTHER -> "login"

\* What follows once the token of the request was read, was marked, and the
\* account was found to be active.
WrongAfterFind(op) == "mark"       \* passkeys and codes go unchecked
AfterFind(op) ==
    CASE op \in {"otp", "enrollFinish"} -> "active"
      [] op = "passkeyFinish" -> "credential"
      [] OTHER -> "mark"
AfterMark(op) ==
    CASE op \in {"signin", "confirmChange"} -> "active"
      [] op = "verify" -> "verified" [] op = "otp" -> "issue"
      [] OTHER -> "write"
AfterActive(op) ==
    CASE op = "signin" -> "session" [] op = "confirmChange" -> "write"
      [] op = "otp" -> "code" [] OTHER -> "commit"

At(r, pc) == requests[r].pc = pc
Go(r, pc) == requests' = [requests EXCEPT ![r].pc = pc]
Finish(r) == requests' = [requests EXCEPT ![r] = Idle]
Mine(r) == requests[r].token

TakesEffect(t) == effects' = [effects EXCEPT ![t] = @ + 1]

\* An issuing request is answered when the row is there; the request that
\* changes the address sends its mail first.
Start(r, op, pc, kind, address) ==
    requests' = [requests EXCEPT ![r] =
        [Idle EXCEPT !.op = op, !.pc = pc, !.kind = kind, !.address = address]]

Init ==
    /\ traffic \in Traffic
    /\ \E verified \in BOOLEAN, a \in Address :
         user = [active |-> TRUE, verified |-> verified, email |-> a,
                 edited |-> FALSE, proved |-> IF verified THEN {a} ELSE {}]
    /\ totp = [id |-> 0, enabled |-> FALSE]
    /\ credential = [id |-> 0, counter |-> 0]
    /\ rows = [totp |-> 0, credential |-> 0]
    /\ tokens = [t \in Token |->
         [kind |-> "none", there |-> FALSE, used |-> FALSE, expired |-> FALSE,
          attempts |-> 0, mailedTo |-> Somewhere]]
    /\ requests = [r \in Request |-> Idle]
    /\ device = 0
    /\ effects = [t \in Token |-> 0]
    /\ guesses = [t \in Token |-> 0]

rowVars == <<user, totp, credential, rows>>
otherVars == <<device, effects, guesses, traffic>>

-----------------------------------------------------------------------------
(* Requests that issue a token. *)

\* POST /login: a known password, of an active account that is verified
\* where the settings ask for it.
Login(r) ==
    /\ user.active
    /\ Start(r, "login", "totp", "login", Somewhere)

Resend(r) ==
    /\ user.active /\ ~user.verified
    /\ Start(r, "resend", "issue", "verify", user.email)

Forgot(r) ==
    /\ user.active /\ user.verified
    /\ Start(r, "forgot", "issue", "reset", user.email)

RequestChange(r) ==
    /\ user.active
    /\ \E a \in Address \ {user.email} :
         Start(r, "requestChange", "issue", "change", a)

PasskeyBegin(r) == Start(r, "passkeyBegin", "issue", "passkey", Somewhere)

EnrollBegin(r) ==
    /\ user.active
    /\ Start(r, "enrollBegin", "issue", "enroll", Somewhere)

Ask(r) ==
    /\ At(r, "idle")
    /\ \/ "login" \in traffic /\ Login(r)
       \/ "resend" \in traffic /\ Resend(r)
       \/ "forgot" \in traffic /\ Forgot(r)
       \/ "requestChange" \in traffic /\ RequestChange(r)
       \/ "passkeyBegin" \in traffic /\ PasskeyBegin(r)
       \/ "enrollBegin" \in traffic /\ EnrollBegin(r)
    /\ UNCHANGED <<rowVars, tokens, otherVars>>

\* After the first factor: a challenge for the second one where it is
\* enabled, and the settings still have it.
AskSecondFactor(r) ==
    /\ At(r, "totp")
    /\ \E kind \in {"login", "mfa"} :
         /\ kind = "mfa" => totp.enabled
         /\ requests' = [requests EXCEPT ![r].pc = "issue", ![r].kind = kind]
    /\ UNCHANGED <<rowVars, tokens, otherVars>>

\* The row is created; a request that spent a token for it has its effect.
Issue(r) ==
    /\ At(r, "issue")
    /\ \E t \in Token \ Issued :
         /\ tokens' = [tokens EXCEPT ![t] =
                         NewToken(requests[r].kind, requests[r].address)]
         /\ IF requests[r].op = "requestChange"
            THEN requests' = [requests EXCEPT ![r].pc = "mail", ![r].other = t]
            ELSE Finish(r)
    /\ IF Mine(r) \in Token THEN TakesEffect(Mine(r)) ELSE UNCHANGED effects
    /\ UNCHANGED <<rowVars, device, guesses, traffic>>

\* A change whose mail cannot be sent deletes its token, if it can.
MailChange(r) ==
    /\ At(r, "mail")
    /\ \E gone \in SUBSET {requests[r].other} : tokens' = Deleted(gone)
    /\ Finish(r)
    /\ UNCHANGED <<rowVars, otherVars>>

-----------------------------------------------------------------------------
(* Requests that spend a token. *)

\* A used token still verifies the address, but issues no login token.
Usable(op, t) ==
    LET row == tokens[t] IN
    /\ row.kind = Spends(op) /\ row.there /\ ~row.expired
    /\ ~row.used \/ op = "verify"
    /\ op = "otp" => row.attempts < MaxAttempts

Find(r) ==
    /\ At(r, "idle")
    /\ \E op \in Spending \intersect traffic, t \in Token :
         /\ Usable(op, t)
         /\ requests' = [requests EXCEPT ![r] =
              IF tokens[t].used
              THEN [Idle EXCEPT !.op = op, !.pc = "verified", !.other = t]
              ELSE [Idle EXCEPT !.op = op, !.pc = AfterFind(op), !.token = t]]
    /\ UNCHANGED <<rowVars, tokens, otherVars>>

\* The conditional update that only one of several requests wins; one that
\* loses it ends, but goes on to verify the address.
Mark(r) ==
    LET me == requests[r] IN
    /\ At(r, "mark")
    /\ \/ /\ Taken(me.token)
          /\ tokens' = [tokens EXCEPT ![me.token].used = TRUE]
          /\ Go(r, AfterMark(me.op))
       \/ /\ ~Taken(me.token) /\ me.op = "verify"
          /\ requests' = [requests EXCEPT ![r] =
               [me EXCEPT !.pc = "verified", !.other = me.token,
                          !.token = NoToken]]
          /\ UNCHANGED tokens
       \/ /\ ~Taken(me.token) /\ me.op # "verify"
          /\ Finish(r)
          /\ UNCHANGED tokens
    /\ UNCHANGED <<rowVars, otherVars>>

CheckActive(r) ==
    /\ At(r, "active")
    /\ IF user.active THEN Go(r, AfterActive(requests[r].op)) ELSE Finish(r)
    /\ UNCHANGED <<rowVars, tokens, otherVars>>

\* The signIn callback looks once more, then the session is there.
SignIn(r) ==
    /\ At(r, "session")
    /\ IF user.active THEN TakesEffect(Mine(r)) ELSE UNCHANGED effects
    /\ Finish(r)
    /\ UNCHANGED <<rowVars, tokens, device, guesses, traffic>>

Proved(u, a) == [u EXCEPT !.proved = @ \union {a}]

WrongNewAddress(r) ==              \* what was asked for last, by anyone
    CHOOSE a \in Address : \E t \in Issued : /\ tokens[t].kind = "change"
                                             /\ tokens[t].mailedTo = a
NewAddress(r) == tokens[Mine(r)].mailedTo

\* The new password, which no property is about, or the new address: a
\* unique index keeps it from being another account's, and then it fails.
Write(r) ==
    /\ At(r, "write")
    /\ user' = IF requests[r].op = "reset" THEN user
               ELSE [Proved(user, tokens[Mine(r)].mailedTo) EXCEPT
                       !.email = NewAddress(r), !.verified = TRUE]
    /\ TakesEffect(Mine(r))
    /\ Finish(r)
    /\ UNCHANGED <<totp, credential, rows, tokens, device, guesses, traffic>>

\* The mailed link does not name an address: that of the account is verified.
SetVerified(r) ==
    LET me == requests[r]
        link == IF me.token = NoToken THEN me.other ELSE me.token
    IN /\ At(r, "verified")
       /\ user' = [Proved(user, tokens[link].mailedTo) EXCEPT !.verified = TRUE]
       /\ IF me.token = NoToken THEN Finish(r) ELSE Go(r, "issue")
       /\ UNCHANGED <<totp, credential, rows, tokens, otherVars>>

\* The second factor: a code of the app is right or wrong; of the backup
\* codes an unused one may match, and is then used up or has just been.
TryCode(r) ==
    /\ At(r, "code")
    /\ \/ ~totp.enabled /\ Finish(r)
       \/ totp.enabled /\ \E pc \in {"mark", "wrong"} : Go(r, pc)
       \/ /\ totp.enabled
          /\ \E c \in BackupCodes : /\ ~tokens[c].used
                                    /\ requests' = [requests EXCEPT
                                          ![r].pc = "burn", ![r].other = c]
    /\ UNCHANGED <<rowVars, tokens, otherVars>>

BurnCode(r) ==
    LET c == requests[r].other IN
    /\ At(r, "burn")
    /\ \/ /\ Taken(c)
          /\ tokens' = [tokens EXCEPT ![c].used = TRUE]
          /\ TakesEffect(c) /\ Go(r, "mark")
       \/ /\ ~Taken(c)
          /\ Go(r, "wrong") /\ UNCHANGED <<tokens, effects>>
    /\ UNCHANGED <<rowVars, device, guesses, traffic>>

WrongCounted(row) == [row EXCEPT !.attempts = 1]   \* set, not increased
Counted(row) == [row EXCEPT !.attempts = @ + 1]

CountWrongCode(r) ==
    /\ At(r, "wrong")
    /\ tokens' = [tokens EXCEPT ![Mine(r)] = Counted(@)]
    /\ guesses' = [guesses EXCEPT ![Mine(r)] = @ + 1]
    /\ Finish(r)
    /\ UNCHANGED <<rowVars, device, effects, traffic>>

-----------------------------------------------------------------------------
(* Passkeys. *)

\* The credential is read and the assertion verified against the counter as
\* it was read; the authenticator counts each signature it makes.
ReadCredential(r) ==
    /\ At(r, "credential")
    /\ \/ /\ credential.id # 0 /\ device < MaxCounter
          /\ device + 1 > credential.counter
          /\ device' = device + 1
          /\ requests' = [requests EXCEPT
               ![r].pc = "active", ![r].row = credential.id,
               ![r].counter = device + 1]
       \/ Finish(r) /\ UNCHANGED device
    /\ UNCHANGED <<rowVars, tokens, effects, guesses, traffic>>

WrongAdvanced(counter, seen) == seen
Advanced(counter, seen) == IF counter < seen THEN seen ELSE counter

\* One transaction: it ends without effect when the challenge is used or
\* the credential is gone.
FinishAssertion(r) ==
    LET me == requests[r] IN
    /\ At(r, "commit") /\ me.op = "passkeyFinish"
    /\ \/ /\ Taken(me.token) /\ me.row = credential.id
          /\ tokens' = [tokens EXCEPT ![me.token].used = TRUE]
          /\ credential' = [credential EXCEPT
                              !.counter = Advanced(@, me.counter)]
          /\ Go(r, "totp")
       \/ /\ ~(Taken(me.token) /\ me.row = credential.id)
          /\ Finish(r) /\ UNCHANGED <<tokens, credential>>
    /\ UNCHANGED <<user, totp, rows, otherVars>>

\* One transaction: it is rolled back when the authenticator's credential is
\* registered already, and leaves the challenge to be used again.
FinishEnrollment(r) ==
    LET me == requests[r] IN
    /\ At(r, "commit") /\ me.op = "enrollFinish"
    /\ \/ /\ Taken(me.token) /\ credential.id = 0 /\ rows.credential < MaxRows
          /\ tokens' = [tokens EXCEPT ![me.token].used = TRUE]
          /\ credential' = [id |-> rows.credential + 1, counter |-> device]
          /\ rows' = [rows EXCEPT !.credential = @ + 1]
          /\ TakesEffect(me.token)
       \/ /\ ~Taken(me.token) \/ credential.id # 0
          /\ UNCHANGED <<tokens, credential, rows, effects>>
    /\ Finish(r)
    /\ UNCHANGED <<user, totp, device, guesses, traffic>>

\* The user or an administrator removes the passkey: one statement.
RemovePasskey ==
    /\ "removePasskey" \in traffic /\ credential.id # 0
    /\ credential' = [id |-> 0, counter |-> 0]
    /\ UNCHANGED <<user, totp, rows, tokens, requests, otherVars>>

-----------------------------------------------------------------------------
(* Setting up, confirming and removing the second factor. *)

\* Any of them reads first; disabling asks for the password instead.
Manage(r) ==
    /\ At(r, "idle") /\ user.active
    /\ \E op \in Managing \intersect traffic :
         /\ op = "setup" => ~totp.enabled
         /\ op = "confirm" => totp.id # 0 /\ ~totp.enabled
         /\ requests' = [requests EXCEPT ![r] =
              [Idle EXCEPT !.op = op, !.row = totp.id,
                 !.pc = CASE op = "setup" -> "upsert" [] op = "confirm" -> "enable"
                          [] OTHER -> "drop"]]
    /\ UNCHANGED <<rowVars, tokens, otherVars>>

\* setup, then the old backup codes go in a statement of their own.
UpsertTotp(r) ==
    /\ At(r, "upsert")
    /\ \/ /\ totp.id # 0
          /\ totp' = [totp EXCEPT !.enabled = FALSE] /\ UNCHANGED rows
       \/ /\ totp.id = 0 /\ rows.totp < MaxRows
          /\ totp' = [id |-> rows.totp + 1, enabled |-> FALSE]
          /\ rows' = [rows EXCEPT !.totp = @ + 1]
    /\ requests' = [requests EXCEPT ![r].pc = "clear", ![r].row = totp'.id]
    /\ UNCHANGED <<user, credential, tokens, otherVars>>

ClearCodes(r) ==
    /\ At(r, "clear")
    /\ tokens' = IF requests[r].row = totp.id THEN Deleted(BackupCodes) ELSE tokens
    /\ Finish(r)
    /\ UNCHANGED <<rowVars, otherVars>>

WrongSameTotp(r) == totp.id # 0    \* found by the user, not by the row's id
SameTotp(r) == totp.id # 0 /\ totp.id = requests[r].row

\* confirm, after the code was right for the secret it read: one transaction
\* enables the row and replaces the backup codes (one stands for the ten).
EnableTotp(r) ==
    /\ At(r, "enable")
    /\ \/ /\ SameTotp(r)
          /\ totp' = [totp EXCEPT !.enabled = TRUE]
          /\ \E c \in Token \ Issued :
               tokens' = [Deleted(BackupCodes) EXCEPT
                            ![c] = NewToken("backup", Somewhere)]
       \/ ~SameTotp(r) /\ UNCHANGED <<totp, tokens>>
    /\ Finish(r)
    /\ UNCHANGED <<user, credential, rows, otherVars>>

\* disable; the backup codes go with the row.
DropTotp(r) ==
    /\ At(r, "drop")
    /\ totp' = [id |-> 0, enabled |-> FALSE]
    /\ tokens' = Deleted(BackupCodes)
    /\ Finish(r)
    /\ UNCHANGED <<user, credential, rows, otherVars>>

-----------------------------------------------------------------------------
(* The administrator and the clock. *)

SetActive ==
    /\ "setActive" \in traffic
    /\ user' = [user EXCEPT !.active = ~@]
    /\ UNCHANGED <<totp, credential, rows, tokens, requests, otherVars>>

\* PATCH of the user: an address and a mark of verification, as given.
EditAddress ==
    /\ "editAddress" \in traffic /\ ~user.edited
    /\ \E a \in Address, verified \in BOOLEAN :
         user' = [user EXCEPT !.email = a, !.verified = verified, !.edited = TRUE]
    /\ UNCHANGED <<totp, credential, rows, tokens, requests, otherVars>>

Expire(t) ==
    /\ tokens[t].kind \notin {"none", "backup"}
    /\ tokens[t].there /\ ~tokens[t].expired
    /\ tokens[t].used => tokens[t].kind = "verify"
    /\ tokens' = [tokens EXCEPT ![t].expired = TRUE]
    /\ UNCHANGED <<rowVars, requests, otherVars>>

\* Any await may throw and the server may restart: what was done stays.
Abort(r) ==
    /\ ~At(r, "idle")
    /\ Finish(r)
    /\ UNCHANGED <<rowVars, tokens, otherVars>>

RequestStep(r) ==
    \/ Ask(r) \/ AskSecondFactor(r) \/ Issue(r) \/ MailChange(r)
    \/ Find(r) \/ Mark(r) \/ CheckActive(r) \/ SignIn(r) \/ Write(r)
    \/ SetVerified(r) \/ TryCode(r) \/ BurnCode(r) \/ CountWrongCode(r)
    \/ ReadCredential(r) \/ FinishAssertion(r) \/ FinishEnrollment(r)
    \/ Manage(r) \/ UpsertTotp(r) \/ ClearCodes(r) \/ EnableTotp(r)
    \/ DropTotp(r) \/ Abort(r)

Next ==
    \/ \E r \in Request : RequestStep(r)
    \/ \E t \in Token : Expire(t)
    \/ RemovePasskey \/ SetActive \/ EditAddress

Spec == Init /\ [][Next]_vars

-----------------------------------------------------------------------------
(* Properties. *)

\* A token or a backup code takes effect at most once (a session, a login
\* token, a new address, a credential), however many requests bring it at the
\* same time and whatever is deleted or expires between their statements; and
\* never after it was deleted unused.
OneTime == INSTANCE OneTimeToken WITH
    issued <- Issued,
    revoked <- {t \in Issued : ~tokens[t].there /\ ~tokens[t].used}

SpentOnce == OneTime!Spec

\* Requests that read the challenge before it was locked and have not
\* answered yet.
Guessing(t) == {r \in Request : /\ requests[r].op = "otp"
                                /\ requests[r].token = t}

\* The limit of wrong codes holds up to the requests that run at the same
\* time: no increment is lost, and no request starts on a locked challenge.
GuessLimit ==
    \A t \in Token :
        guesses[t] + Cardinality(Guessing(t)) <=
            MaxAttempts + Cardinality(Request) - 1

\* Sign-ins that overtake each other never take the counter of a registered
\* passkey back, which would let an older assertion pass.
CounterGrows ==
    [][credential'.id = credential.id =>
         credential'.counter >= credential.counter]_vars

\* A verified address was proved, though the link that verifies an account
\* does not say which address it was sent to and the address may have been
\* changed since: unless an administrator wrote it by hand.
VerifiedAddress ==
    user.verified /\ ~user.edited => user.email \in user.proved

\* The second factor is enabled for the row whose code was checked: a
\* confirmation that is overtaken by a removal, and a new set-up, enables
\* nothing.
EnabledAsRead ==
    totp'.enabled /\ ~totp.enabled =>
        \E r \in Request : At(r, "enable") /\ requests[r].row = totp'.id

EnablesWhatItRead == [][EnabledAsRead]_vars
=============================================================================
