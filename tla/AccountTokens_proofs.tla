------------------------ MODULE AccountTokens_proofs ------------------------
(***************************************************************************)
(* Theorems about AccountTokens, for any number of tokens and requests.    *)
(***************************************************************************)
EXTENDS AccountTokens, FiniteSetTheorems, TLAPS

-----------------------------------------------------------------------------
(* Types. *)

LEMMA IdleType == Idle \in RequestState /\ Shape(Idle)
<1>1. Somewhere \in Address
  BY TokenAssumption DEF Somewhere
<1>2. Idle.op = "none" /\ Idle.pc = "idle" /\ Idle.token = NoToken
  BY DEF Idle
<1>3. Shape(Idle)
  BY <1>2 DEF Shape, Steps, Spending
<1> QED
  BY <1>1, <1>3 DEF Idle, RequestState, Kind, Op

LEMMA DeletedType ==
    ASSUME TypeOK, NEW S
    PROVE  /\ Deleted(S) \in [Token -> TokenRow]
           /\ \A t \in Token : /\ Deleted(S)[t].kind = tokens[t].kind
                               /\ Deleted(S)[t].used = tokens[t].used
                               /\ Deleted(S)[t].attempts = tokens[t].attempts
                               /\ Deleted(S)[t].mailedTo = tokens[t].mailedTo
                               /\ Deleted(S)[t].there => tokens[t].there
                               /\ t \notin S => Deleted(S)[t] = tokens[t]
<1>1. \A t \in Token : tokens[t] \in TokenRow
  BY DEF TypeOK
<1>2. \A t \in Token : [tokens[t] EXCEPT !.there = FALSE] \in TokenRow
  BY <1>1 DEF TokenRow
<1> QED
  BY <1>1, <1>2 DEF Deleted, TokenRow

\* A step of one request that leaves a good record there keeps the types.
LEMMA OneRequest ==
    ASSUME TypeOK, NEW r \in Request, NEW me \in RequestState, Shape(me),
           requests' = [requests EXCEPT ![r] = me]
    PROVE  /\ requests' \in [Request -> RequestState]
           /\ \A q \in Request : Shape(requests'[q])
BY DEF TypeOK

LEMMA FinishType ==
    ASSUME TypeOK, NEW r \in Request, Finish(r)
    PROVE  /\ requests' \in [Request -> RequestState]
           /\ \A q \in Request : Shape(requests'[q])
BY IdleType, OneRequest DEF Finish

\* The same for a step that only goes on to another place.
LEMMA GoType ==
    ASSUME TypeOK, NEW r \in Request, NEW pc \in Steps(requests[r].op), Go(r, pc),
           pc # "burn", pc # "mail", requests[r].pc # "verified",
           pc \in {"idle", "totp", "issue", "mail", "mark", "active", "session",
           "write", "verified", "code", "burn", "wrong", "credential",
           "commit", "upsert", "clear", "enable", "drop"}
    PROVE  /\ requests' \in [Request -> RequestState]
           /\ \A q \in Request : Shape(requests'[q])
<1> DEFINE me == [requests[r] EXCEPT !.pc = pc]
<1>1. requests[r] \in RequestState /\ Shape(requests[r])
  BY DEF TypeOK
<1>2. me \in RequestState
  BY <1>1 DEF RequestState
<1>3. /\ me.pc = pc /\ me.op = requests[r].op /\ me.token = requests[r].token
      /\ me.other = requests[r].other
  BY <1>1 DEF RequestState
<1>4. Shape(me)
  BY <1>1, <1>3 DEF Shape
<1>5. requests' = [requests EXCEPT ![r] = me]
  BY <1>1 DEF Go, TypeOK
<1> HIDE DEF me
<1> QED
  BY <1>2, <1>4, <1>5, OneRequest


LEMMA InitType == Init => TypeOK
<1> SUFFICES ASSUME Init PROVE TypeOK
  OBVIOUS
<1>1. Somewhere \in Address
  BY TokenAssumption DEF Somewhere
<1>2. user \in User
  BY DEF Init, User
<1>3. tokens \in [Token -> TokenRow]
  BY <1>1 DEF Init, TokenRow
<1>4. requests \in [Request -> RequestState]
      /\ \A r \in Request : Shape(requests[r])
  BY IdleType DEF Init
<1> QED
  BY <1>2, <1>3, <1>4 DEF Init, TypeOK

LEMMA StartType ==
    ASSUME TypeOK, NEW r \in Request, NEW op \in Asking, NEW pc \in {"totp", "issue"},
           pc \in Steps(op), NEW kind \in Kind, NEW a \in Address,
           Start(r, op, pc, kind, a)
    PROVE  /\ requests' \in [Request -> RequestState]
           /\ \A q \in Request : Shape(requests'[q])
<1> DEFINE me == [Idle EXCEPT !.op = op, !.pc = pc, !.kind = kind, !.address = a]
<1>1. me \in RequestState
  BY IdleType DEF RequestState, Op
<1>2. me.op = op /\ me.pc = pc /\ me.token = NoToken
  BY DEF Idle
<1>3. Shape(me)
  BY <1>2 DEF Shape, Asking, Spending
<1> HIDE DEF me
<1>4. requests' = [requests EXCEPT ![r] = me]
  BY DEF Start, me
<1> QED
  BY <1>1, <1>3, <1>4, OneRequest

LEMMA AskType == ASSUME TypeOK, NEW r \in Request, Ask(r) PROVE TypeOK'
<1>1. Somewhere \in Address /\ user.email \in Address
  BY TokenAssumption DEF Somewhere, TypeOK, User
<1>2. /\ requests' \in [Request -> RequestState]
      /\ \A q \in Request : Shape(requests'[q])
  <2>1. CASE Login(r)
    BY <2>1, <1>1, StartType DEF Login, Steps, Asking, Kind
  <2>2. CASE Resend(r)
    BY <2>2, <1>1, StartType DEF Resend, Steps, Asking, Kind
  <2>3. CASE Forgot(r)
    BY <2>3, <1>1, StartType DEF Forgot, Steps, Asking, Kind
  <2>4. CASE RequestChange(r)
    BY <2>4, <1>1, StartType DEF RequestChange, Steps, Asking, Kind
  <2>5. CASE PasskeyBegin(r)
    BY <2>5, <1>1, StartType DEF PasskeyBegin, Steps, Asking, Kind
  <2>6. CASE EnrollBegin(r)
    BY <2>6, <1>1, StartType DEF EnrollBegin, Steps, Asking, Kind
  <2> QED
    BY <2>1, <2>2, <2>3, <2>4, <2>5, <2>6 DEF Ask
<1> QED
  BY <1>2 DEF Ask, TypeOK, rowVars, otherVars

LEMMA AskSecondFactorType ==
    ASSUME TypeOK, NEW r \in Request, AskSecondFactor(r) PROVE TypeOK'
<1>1. PICK kind \in {"login", "mfa"} :
         requests' = [requests EXCEPT ![r].pc = "issue", ![r].kind = kind]
  BY DEF AskSecondFactor
<1> DEFINE me == [requests[r] EXCEPT !.pc = "issue", !.kind = kind]
<1>2. requests[r] \in RequestState /\ Shape(requests[r]) /\ requests[r].pc = "totp"
  BY DEF TypeOK, AskSecondFactor, At
<1>3. me \in RequestState
  BY <1>2 DEF RequestState, Kind
<1>4. /\ me.pc = "issue" /\ me.op = requests[r].op
      /\ me.token = requests[r].token
  BY <1>2 DEF RequestState
<1>5. Shape(me)
  BY <1>2, <1>4 DEF Shape, Steps
<1>6. requests' = [requests EXCEPT ![r] = me]
  BY <1>1, <1>2 DEF TypeOK
<1> HIDE DEF me
<1>7. /\ requests' \in [Request -> RequestState]
      /\ \A q \in Request : Shape(requests'[q])
  BY <1>3, <1>5, <1>6, OneRequest
<1> QED
  BY <1>7 DEF AskSecondFactor, TypeOK, rowVars, otherVars

LEMMA IssueType == ASSUME TypeOK, NEW r \in Request, Issue(r) PROVE TypeOK'
<1>1. PICK t \in Token \ Issued :
         /\ tokens' = [tokens EXCEPT ![t] =
                         NewToken(requests[r].kind, requests[r].address)]
         /\ IF requests[r].op = "requestChange"
            THEN requests' = [requests EXCEPT ![r].pc = "mail", ![r].other = t]
            ELSE Finish(r)
  BY DEF Issue
<1>2. requests[r] \in RequestState /\ Shape(requests[r])
  BY DEF TypeOK
<1>3. NewToken(requests[r].kind, requests[r].address) \in TokenRow
  BY <1>2 DEF NewToken, RequestState, TokenRow
<1>4. tokens' \in [Token -> TokenRow]
  BY <1>1, <1>3 DEF TypeOK
<1>5. /\ requests' \in [Request -> RequestState]
      /\ \A q \in Request : Shape(requests'[q])
  <2>1. CASE requests[r].op = "requestChange"
    <3> DEFINE me == [requests[r] EXCEPT !.pc = "mail", !.other = t]
    <3>1. me \in RequestState
      BY <1>2 DEF RequestState
    <3>2. /\ me.pc = "mail" /\ me.op = "requestChange" /\ me.other = t
          /\ me.token = requests[r].token
      BY <1>2, <2>1 DEF RequestState
    <3>3. Shape(me)
      BY <1>2, <2>1, <3>2 DEF Shape, Steps, Spending
    <3>4. requests' = [requests EXCEPT ![r] = me]
      BY <1>1, <1>2, <2>1 DEF TypeOK
    <3> HIDE DEF me
    <3> QED
      BY <3>1, <3>3, <3>4, OneRequest
  <2>2. CASE requests[r].op # "requestChange"
    BY <1>1, <2>2, FinishType
  <2> QED
    BY <2>1, <2>2
<1>6. effects' \in [Token -> Nat]
  BY DEF Issue, TakesEffect, TypeOK
<1> QED
  BY <1>4, <1>5, <1>6 DEF Issue, TypeOK, rowVars

LEMMA MailChangeType ==
    ASSUME TypeOK, NEW r \in Request, MailChange(r) PROVE TypeOK'
BY DeletedType, FinishType DEF MailChange, TypeOK, rowVars, otherVars

LEMMA FindType == ASSUME TypeOK, NEW r \in Request, Find(r) PROVE TypeOK'
<1>1. PICK op \in Spending, t \in Token :
         /\ Usable(op, t)
         /\ requests' = [requests EXCEPT ![r] =
              IF tokens[t].used
              THEN [Idle EXCEPT !.op = op, !.pc = "verified", !.other = t]
              ELSE [Idle EXCEPT !.op = op, !.pc = AfterFind(op), !.token = t]]
  BY DEF Find
<1>2. tokens[t].used => op = "verify"
  BY <1>1 DEF Usable
<1> DEFINE me == IF tokens[t].used
                 THEN [Idle EXCEPT !.op = op, !.pc = "verified", !.other = t]
                 ELSE [Idle EXCEPT !.op = op, !.pc = AfterFind(op), !.token = t]
<1>3. AfterFind(op) \in Steps(op) /\ AfterFind(op) \in {"active", "credential", "mark"}
  BY DEF AfterFind, Steps, Spending
<1>4. me \in RequestState
  BY <1>3, IdleType DEF RequestState, Op
<1>5. Shape(me)
  <2>1. CASE tokens[t].used
    <3>1. me.op = op /\ me.pc = "verified" /\ me.other = t /\ op = "verify"
      BY <1>2, <2>1 DEF Idle
    <3> QED
      BY <3>1 DEF Shape, Steps
  <2>2. CASE ~tokens[t].used
    <3>1. me.op = op /\ me.pc = AfterFind(op) /\ me.token = t
      BY <2>2 DEF Idle
    <3> QED
      BY <1>3, <3>1 DEF Shape
  <2> QED
    BY <2>1, <2>2
<1>6. requests' = [requests EXCEPT ![r] = me]
  BY <1>1
<1> HIDE DEF me
<1>7. /\ requests' \in [Request -> RequestState]
      /\ \A q \in Request : Shape(requests'[q])
  BY <1>4, <1>5, <1>6, OneRequest
<1> QED
  BY <1>7 DEF Find, TypeOK, rowVars, otherVars

LEMMA TakenType ==
    ASSUME TypeOK, NEW t \in Token, tokens' = [tokens EXCEPT ![t].used = TRUE]
    PROVE  /\ tokens' \in [Token -> TokenRow]
           /\ tokens'[t].used
           /\ \A u \in Token : /\ tokens'[u].kind = tokens[u].kind
                               /\ tokens'[u].there = tokens[u].there
                               /\ tokens'[u].attempts = tokens[u].attempts
                               /\ tokens'[u].mailedTo = tokens[u].mailedTo
                               /\ u # t => tokens'[u] = tokens[u]
<1>1. \A u \in Token : tokens[u] \in TokenRow
  BY DEF TypeOK
<1>2. [tokens[t] EXCEPT !.used = TRUE] \in TokenRow
  BY <1>1 DEF TokenRow
<1>3. tokens'[t] = [tokens[t] EXCEPT !.used = TRUE]
  BY DEF TypeOK
<1> QED
  BY <1>1, <1>2, <1>3 DEF TypeOK, TokenRow

\* What the three outcomes of the conditional update leave.
LEMMA MarkShape ==
    ASSUME TypeOK, NEW r \in Request, Mark(r)
    PROVE  /\ Mine(r) \in Token /\ requests[r].op \in Spending
           /\ \/ /\ Taken(Mine(r)) /\ tokens' = [tokens EXCEPT ![Mine(r)].used = TRUE]
                 /\ requests' = [requests EXCEPT ![r].pc = AfterMark(requests[r].op)]
              \/ /\ ~Taken(Mine(r)) /\ tokens' = tokens /\ requests[r].op = "verify"
                 /\ requests' = [requests EXCEPT ![r] =
                      [requests[r] EXCEPT !.pc = "verified", !.other = Mine(r),
                                          !.token = NoToken]]
              \/ ~Taken(Mine(r)) /\ tokens' = tokens /\ Finish(r)
<1>1. Shape(requests[r]) /\ requests[r].pc = "mark"
  BY DEF TypeOK, Mark, At
<1>2. requests[r].op \in Spending
  BY <1>1 DEF Shape, Steps, Spending
<1>3. Mine(r) \in Token
  BY <1>1, <1>2 DEF Shape, Mine
<1> QED
  BY <1>1, <1>2, <1>3 DEF Mark, Mine, Go

LEMMA MarkType == ASSUME TypeOK, NEW r \in Request, Mark(r) PROVE TypeOK'
<1>1. requests[r] \in RequestState /\ Shape(requests[r]) /\ requests[r].pc = "mark"
  BY DEF TypeOK, Mark, At
<1>2. /\ AfterMark(requests[r].op) \in Steps(requests[r].op)
      /\ AfterMark(requests[r].op) \in {"active", "verified", "issue", "write"}
  BY <1>1 DEF Shape, Steps, AfterMark
<1>3. /\ requests' \in [Request -> RequestState]
      /\ \A q \in Request : Shape(requests'[q])
  <2>1. CASE Taken(Mine(r)) /\ requests' = [requests EXCEPT ![r].pc = AfterMark(requests[r].op)]
    BY <2>1, <1>1, <1>2, GoType DEF Go
  <2>2. CASE /\ requests[r].op = "verify"
             /\ requests' = [requests EXCEPT ![r] =
                  [requests[r] EXCEPT !.pc = "verified", !.other = Mine(r),
                                      !.token = NoToken]]
    <3> DEFINE me == [requests[r] EXCEPT !.pc = "verified", !.other = Mine(r),
                                         !.token = NoToken]
    <3>1. me \in RequestState
      BY <1>1, MarkShape DEF RequestState
    <3>2. /\ me.pc = "verified" /\ me.op = "verify" /\ me.other = Mine(r)
          /\ me.token = NoToken
      BY <1>1, <2>2 DEF RequestState
    <3>3. Shape(me)
      <4>1. Mine(r) \in Token
        BY MarkShape
      <4> HIDE DEF me
      <4> QED
        BY <3>2, <4>1 DEF Shape, Steps, Spending
    <3>4. requests' = [requests EXCEPT ![r] = me]
      BY <2>2
    <3> HIDE DEF me
    <3> QED
      BY <3>1, <3>3, <3>4, OneRequest
  <2>3. CASE Finish(r)
    BY <2>3, FinishType
  <2> QED
    BY <2>1, <2>2, <2>3, MarkShape
<1>4. tokens' \in [Token -> TokenRow]
  BY MarkShape, TakenType DEF TypeOK
<1> QED
  BY <1>3, <1>4 DEF Mark, TypeOK, rowVars, otherVars

LEMMA CheckActiveType ==
    ASSUME TypeOK, NEW r \in Request, CheckActive(r) PROVE TypeOK'
<1>1. Shape(requests[r]) /\ requests[r].pc = "active"
  BY DEF TypeOK, CheckActive, At
<1>2. /\ AfterActive(requests[r].op) \in Steps(requests[r].op)
      /\ AfterActive(requests[r].op) \in {"session", "write", "code", "commit"}
  BY <1>1 DEF Shape, Steps, AfterActive
<1>3. /\ requests' \in [Request -> RequestState]
      /\ \A q \in Request : Shape(requests'[q])
  BY <1>1, <1>2, GoType, FinishType DEF CheckActive
<1> QED
  BY <1>3 DEF CheckActive, TypeOK, rowVars, otherVars

\* The places at which a request acts on its own token.
LEMMA MineType ==
    ASSUME TypeOK, NEW r \in Request,
           requests[r].pc \in {"session", "write", "code", "burn", "wrong", "commit",
                               "credential", "active"}
    PROVE  Mine(r) \in Token
<1>1. Shape(requests[r])
  BY DEF TypeOK
<1>2. requests[r].op \in Spending
  BY <1>1 DEF Shape, Steps, Spending
<1> QED
  BY <1>1, <1>2 DEF Shape, Mine

LEMMA SignInType == ASSUME TypeOK, NEW r \in Request, SignIn(r) PROVE TypeOK'
<1>1. Mine(r) \in Token
  BY MineType DEF SignIn, At
<1>2. effects' \in [Token -> Nat]
  BY <1>1 DEF SignIn, TakesEffect, TypeOK
<1>3. /\ requests' \in [Request -> RequestState]
      /\ \A q \in Request : Shape(requests'[q])
  BY FinishType DEF SignIn
<1> QED
  BY <1>2, <1>3 DEF SignIn, TypeOK, rowVars

LEMMA ProvedType ==
    ASSUME TypeOK, NEW a \in Address
    PROVE  /\ Proved(user, a) \in User
           /\ Proved(user, a).proved = user.proved \union {a}
           /\ Proved(user, a).email = user.email
           /\ Proved(user, a).verified = user.verified
           /\ Proved(user, a).edited = user.edited
BY DEF TypeOK, User, Proved

LEMMA WriteType == ASSUME TypeOK, NEW r \in Request, Write(r) PROVE TypeOK'
<1>1. Mine(r) \in Token
  BY MineType DEF Write, At
<1>2. tokens[Mine(r)].mailedTo \in Address
  BY <1>1 DEF TypeOK, TokenRow
<1>3. Proved(user, tokens[Mine(r)].mailedTo) \in User
  BY <1>2, ProvedType
<1>4. user' \in User
  BY <1>2, <1>3 DEF Write, NewAddress, TypeOK, User
<1>5. effects' \in [Token -> Nat]
  BY <1>1 DEF Write, TakesEffect, TypeOK
<1>6. /\ requests' \in [Request -> RequestState]
      /\ \A q \in Request : Shape(requests'[q])
  BY FinishType DEF Write
<1> QED
  BY <1>4, <1>5, <1>6 DEF Write, TypeOK

LEMMA SetVerifiedType ==
    ASSUME TypeOK, NEW r \in Request, SetVerified(r) PROVE TypeOK'
<1>1. /\ requests[r] \in RequestState /\ Shape(requests[r])
      /\ requests[r].pc = "verified"
  BY DEF TypeOK, SetVerified, At
<1>2. requests[r].op = "verify"
  BY <1>1 DEF Shape, Steps
<1> DEFINE link == IF requests[r].token = NoToken THEN requests[r].other
                   ELSE requests[r].token
<1>3. link \in Token
  BY <1>1, <1>2, TokenAssumption DEF Shape, Spending, RequestState
<1>4. tokens[link].mailedTo \in Address
  BY <1>3 DEF TypeOK, TokenRow
<1>5. user' \in User
  <2>1. user' = [Proved(user, tokens[link].mailedTo) EXCEPT !.verified = TRUE]
    BY DEF SetVerified
  <2> DEFINE u == Proved(user, tokens[link].mailedTo)
  <2>2. u \in User
    BY <1>4, ProvedType
  <2>3. user' = [u EXCEPT !.verified = TRUE]
    BY <2>1
  <2> HIDE DEF link, u
  <2> QED
    BY <2>2, <2>3 DEF User
<1>6. /\ requests' \in [Request -> RequestState]
      /\ \A q \in Request : Shape(requests'[q])
  <2>1. CASE requests[r].token = NoToken
    BY <2>1, FinishType DEF SetVerified
  <2>2. CASE requests[r].token # NoToken
    <3> DEFINE me == [requests[r] EXCEPT !.pc = "issue"]
    <3>1. me \in RequestState
      BY <1>1 DEF RequestState
    <3>2. /\ me.pc = "issue" /\ me.op = "verify" /\ me.token = requests[r].token
      BY <1>1, <1>2 DEF RequestState
    <3>3. me.token \in Token
      BY <1>1, <2>2, <3>2 DEF RequestState
    <3>4. Shape(me)
      BY <3>2, <3>3 DEF Shape, Steps, Spending
    <3>5. requests' = [requests EXCEPT ![r] = me]
      BY <1>1, <2>2 DEF SetVerified, Go, TypeOK
    <3> HIDE DEF me
    <3> QED
      BY <3>1, <3>4, <3>5, OneRequest
  <2> QED
    BY <2>1, <2>2
<1> QED
  BY <1>5, <1>6 DEF SetVerified, TypeOK, otherVars

LEMMA TryCodeType == ASSUME TypeOK, NEW r \in Request, TryCode(r) PROVE TypeOK'
<1>1. /\ requests[r] \in RequestState /\ Shape(requests[r])
      /\ requests[r].pc = "code"
  BY DEF TypeOK, TryCode, At
<1>2. requests[r].op = "otp"
  BY <1>1 DEF Shape, Steps
<1>3. /\ requests' \in [Request -> RequestState]
      /\ \A q \in Request : Shape(requests'[q])
  <2>1. CASE Finish(r)
    BY <2>1, FinishType
  <2>2. CASE \E pc \in {"mark", "wrong"} : Go(r, pc)
    BY <2>2, <1>1, <1>2, GoType DEF Steps
  <2>3. ASSUME NEW c \in BackupCodes,
               requests' = [requests EXCEPT ![r].pc = "burn", ![r].other = c]
        PROVE  /\ requests' \in [Request -> RequestState]
               /\ \A q \in Request : Shape(requests'[q])
    <3> DEFINE me == [requests[r] EXCEPT !.pc = "burn", !.other = c]
    <3>1. me \in RequestState
      BY <1>1 DEF RequestState, BackupCodes
    <3>2. /\ me.pc = "burn" /\ me.op = "otp" /\ me.token = requests[r].token
          /\ me.other = c
      BY <1>1, <1>2 DEF RequestState
    <3>3. Shape(me)
      BY <1>1, <1>2, <3>2 DEF Shape, Steps, BackupCodes, Spending
    <3>4. requests' = [requests EXCEPT ![r] = me]
      BY <1>1, <2>3 DEF TypeOK
    <3> HIDE DEF me
    <3> QED
      BY <3>1, <3>3, <3>4, OneRequest
  <2> QED
    BY <2>1, <2>2, <2>3 DEF TryCode
<1> QED
  BY <1>3 DEF TryCode, TypeOK, rowVars, otherVars

LEMMA BurnCodeType == ASSUME TypeOK, NEW r \in Request, BurnCode(r) PROVE TypeOK'
<1>1. Shape(requests[r]) /\ requests[r].pc = "burn"
  BY DEF TypeOK, BurnCode, At
<1>2. requests[r].op = "otp" /\ requests[r].other \in Token
  BY <1>1 DEF Shape, Steps
<1>3. /\ requests' \in [Request -> RequestState]
      /\ \A q \in Request : Shape(requests'[q])
  BY <1>1, <1>2, GoType DEF BurnCode, Steps
<1>4. tokens' \in [Token -> TokenRow]
  BY <1>2, TakenType DEF BurnCode, TypeOK
<1>5. effects' \in [Token -> Nat]
  BY <1>2 DEF BurnCode, TakesEffect, TypeOK
<1> QED
  BY <1>3, <1>4, <1>5 DEF BurnCode, TypeOK, rowVars

LEMMA CountedType ==
    ASSUME NEW row \in TokenRow
    PROVE  /\ Counted(row) \in TokenRow
           /\ Counted(row).attempts = row.attempts + 1
           /\ Counted(row).kind = row.kind /\ Counted(row).used = row.used
           /\ Counted(row).there = row.there
           /\ Counted(row).mailedTo = row.mailedTo
BY DEF Counted, TokenRow

LEMMA CountWrongCodeType ==
    ASSUME TypeOK, NEW r \in Request, CountWrongCode(r) PROVE TypeOK'
<1>1. Mine(r) \in Token
  BY MineType DEF CountWrongCode, At
<1>2. tokens[Mine(r)] \in TokenRow
  BY <1>1 DEF TypeOK
<1>3. tokens' \in [Token -> TokenRow]
  BY <1>2, CountedType DEF CountWrongCode, TypeOK
<1>4. guesses' \in [Token -> Nat]
  BY <1>1 DEF CountWrongCode, TypeOK
<1>5. /\ requests' \in [Request -> RequestState]
      /\ \A q \in Request : Shape(requests'[q])
  BY FinishType DEF CountWrongCode
<1> QED
  BY <1>3, <1>4, <1>5 DEF CountWrongCode, TypeOK, rowVars

LEMMA ReadCredentialType ==
    ASSUME TypeOK, NEW r \in Request, ReadCredential(r) PROVE TypeOK'
<1>1. /\ requests[r] \in RequestState /\ Shape(requests[r])
      /\ requests[r].pc = "credential"
  BY DEF TypeOK, ReadCredential, At
<1>2. requests[r].op = "passkeyFinish"
  BY <1>1 DEF Shape, Steps
<1>3. /\ requests' \in [Request -> RequestState]
      /\ \A q \in Request : Shape(requests'[q])
  <2>1. CASE Finish(r)
    BY <2>1, FinishType
  <2>2. CASE requests' = [requests EXCEPT ![r].pc = "active",
                 ![r].row = credential.id, ![r].counter = device + 1]
    <3> DEFINE me == [requests[r] EXCEPT !.pc = "active", !.row = credential.id,
                                         !.counter = device + 1]
    <3>1. me \in RequestState
      <4>1. credential.id \in Nat /\ device + 1 \in Nat
        BY DEF TypeOK
      <4> QED
        BY <1>1, <4>1 DEF RequestState
    <3>2. me.pc = "active" /\ me.op = "passkeyFinish" /\ me.token = requests[r].token
      BY <1>1, <1>2 DEF RequestState
    <3>3. Shape(me)
      BY <1>1, <1>2, <3>2 DEF Shape, Steps, Spending
    <3>4. requests' = [requests EXCEPT ![r] = me]
      BY <1>1, <2>2 DEF TypeOK
    <3> HIDE DEF me
    <3> QED
      BY <3>1, <3>3, <3>4, OneRequest
  <2> QED
    BY <2>1, <2>2 DEF ReadCredential
<1>4. device' \in Nat
  BY DEF ReadCredential, TypeOK
<1> QED
  BY <1>3, <1>4 DEF ReadCredential, TypeOK, rowVars

LEMMA FinishAssertionType ==
    ASSUME TypeOK, NEW r \in Request, FinishAssertion(r) PROVE TypeOK'
<1>1. /\ Shape(requests[r]) /\ requests[r].pc = "commit"
      /\ requests[r].op = "passkeyFinish" /\ requests[r] \in RequestState
  BY DEF TypeOK, FinishAssertion, At
<1>2. Mine(r) \in Token /\ requests[r].token = Mine(r)
  BY <1>1, MineType DEF Mine
<1>3. /\ requests' \in [Request -> RequestState]
      /\ \A q \in Request : Shape(requests'[q])
  BY <1>1, GoType, FinishType DEF FinishAssertion, Steps
<1>4. tokens' \in [Token -> TokenRow]
  BY <1>2, TakenType DEF FinishAssertion, TypeOK
<1>5. credential' \in [id : Nat, counter : Nat]
  BY <1>1 DEF FinishAssertion, Advanced, RequestState, TypeOK
<1> QED
  BY <1>3, <1>4, <1>5 DEF FinishAssertion, TypeOK, otherVars

LEMMA FinishEnrollmentType ==
    ASSUME TypeOK, NEW r \in Request, FinishEnrollment(r) PROVE TypeOK'
<1>1. Mine(r) \in Token /\ requests[r].token = Mine(r)
  BY MineType DEF Mine, FinishEnrollment, At
<1>2. /\ requests' \in [Request -> RequestState]
      /\ \A q \in Request : Shape(requests'[q])
  BY FinishType DEF FinishEnrollment
<1>3. tokens' \in [Token -> TokenRow]
  BY <1>1, TakenType DEF FinishEnrollment, TypeOK
<1>4. /\ credential' \in [id : Nat, counter : Nat]
      /\ rows' \in [totp : Nat, credential : Nat]
  BY DEF FinishEnrollment, TypeOK
<1>5. effects' \in [Token -> Nat]
  BY <1>1 DEF FinishEnrollment, TakesEffect, TypeOK
<1> QED
  BY <1>2, <1>3, <1>4, <1>5 DEF FinishEnrollment, TypeOK

LEMMA ManageType == ASSUME TypeOK, NEW r \in Request, Manage(r) PROVE TypeOK'
<1>1. PICK op \in Managing :
         requests' = [requests EXCEPT ![r] =
            [Idle EXCEPT !.op = op, !.row = totp.id,
               !.pc = CASE op = "setup" -> "upsert" [] op = "confirm" -> "enable"
                        [] OTHER -> "drop"]]
  BY DEF Manage
<1> DEFINE pc == CASE op = "setup" -> "upsert" [] op = "confirm" -> "enable"
                   [] OTHER -> "drop"
           me == [Idle EXCEPT !.op = op, !.row = totp.id, !.pc = pc]
<1>2. totp.id \in Nat
  BY DEF TypeOK
<1>3. pc \in Steps(op) /\ pc \in {"upsert", "enable", "drop"}
  BY DEF Steps, Managing
<1> HIDE DEF pc
<1>4. me \in RequestState
  BY <1>2, <1>3, IdleType DEF RequestState, Op
<1>5. me.pc = pc /\ me.op = op /\ me.token = NoToken
  BY DEF Idle
<1>6. Shape(me)
  BY <1>3, <1>5 DEF Shape, Spending, Managing
<1>7. requests' = [requests EXCEPT ![r] = me]
  BY <1>1 DEF pc
<1> HIDE DEF me
<1>8. /\ requests' \in [Request -> RequestState]
      /\ \A q \in Request : Shape(requests'[q])
  BY <1>4, <1>6, <1>7, OneRequest
<1> QED
  BY <1>8 DEF Manage, TypeOK, rowVars, otherVars

LEMMA UpsertTotpType ==
    ASSUME TypeOK, NEW r \in Request, UpsertTotp(r) PROVE TypeOK'
<1>1. /\ requests[r] \in RequestState /\ Shape(requests[r])
      /\ requests[r].pc = "upsert"
  BY DEF TypeOK, UpsertTotp, At
<1>2. requests[r].op = "setup"
  BY <1>1 DEF Shape, Steps
<1>3. /\ totp' \in [id : Nat, enabled : BOOLEAN]
      /\ rows' \in [totp : Nat, credential : Nat]
  <2>1. totp \in [id : Nat, enabled : BOOLEAN] /\ rows \in [totp : Nat, credential : Nat]
    BY DEF TypeOK
  <2>2. CASE totp' = [totp EXCEPT !.enabled = FALSE] /\ UNCHANGED rows
    BY <2>1, <2>2
  <2>3. CASE /\ totp' = [id |-> rows.totp + 1, enabled |-> FALSE]
             /\ rows' = [rows EXCEPT !.totp = @ + 1]
    BY <2>1, <2>3
  <2> QED
    BY <2>2, <2>3 DEF UpsertTotp
<1> DEFINE me == [requests[r] EXCEPT !.pc = "clear", !.row = totp'.id]
<1>4. me \in RequestState
  BY <1>1, <1>3 DEF RequestState
<1>5. me.pc = "clear" /\ me.op = "setup" /\ me.token = requests[r].token
  BY <1>1, <1>2 DEF RequestState
<1>6. Shape(me)
  BY <1>1, <1>2, <1>5 DEF Shape, Steps, Spending
<1>7. requests' = [requests EXCEPT ![r] = me]
  BY <1>1 DEF UpsertTotp, TypeOK
<1> HIDE DEF me
<1>8. /\ requests' \in [Request -> RequestState]
      /\ \A q \in Request : Shape(requests'[q])
  BY <1>4, <1>6, <1>7, OneRequest
<1> QED
  BY <1>3, <1>8 DEF UpsertTotp, TypeOK, otherVars

LEMMA ClearCodesType ==
    ASSUME TypeOK, NEW r \in Request, ClearCodes(r) PROVE TypeOK'
BY DeletedType, FinishType DEF ClearCodes, TypeOK, rowVars, otherVars

LEMMA EnableTotpType ==
    ASSUME TypeOK, NEW r \in Request, EnableTotp(r) PROVE TypeOK'
<1>1. NewToken("backup", Somewhere) \in TokenRow
  BY IdleType DEF NewToken, Idle, TokenRow, RequestState, Kind
<1>2. tokens' \in [Token -> TokenRow]
  BY <1>1, DeletedType DEF EnableTotp, TypeOK
<1>3. totp' \in [id : Nat, enabled : BOOLEAN]
  BY DEF EnableTotp, TypeOK
<1>4. /\ requests' \in [Request -> RequestState]
      /\ \A q \in Request : Shape(requests'[q])
  BY FinishType DEF EnableTotp
<1> QED
  BY <1>2, <1>3, <1>4 DEF EnableTotp, TypeOK, otherVars

LEMMA DropTotpType ==
    ASSUME TypeOK, NEW r \in Request, DropTotp(r) PROVE TypeOK'
BY DeletedType, FinishType DEF DropTotp, TypeOK, otherVars

LEMMA OtherType ==
    ASSUME TypeOK, RemovePasskey \/ SetActive \/ EditAddress \/ UNCHANGED vars
    PROVE  TypeOK'
<1>1. CASE RemovePasskey
  BY <1>1 DEF RemovePasskey, TypeOK, otherVars
<1>2. CASE SetActive
  BY <1>2 DEF SetActive, TypeOK, otherVars, User
<1>3. CASE EditAddress
  BY <1>3 DEF EditAddress, TypeOK, otherVars, User
<1>4. CASE UNCHANGED vars
  BY <1>4 DEF vars, TypeOK
<1> QED
  BY <1>1, <1>2, <1>3, <1>4

LEMMA ExpireType == ASSUME TypeOK, NEW t \in Token, Expire(t) PROVE TypeOK'
<1>1. tokens[t] \in TokenRow
  BY DEF TypeOK
<1>2. [tokens[t] EXCEPT !.expired = TRUE] \in TokenRow
  BY <1>1 DEF TokenRow
<1>3. tokens' = [tokens EXCEPT ![t] = [tokens[t] EXCEPT !.expired = TRUE]]
  BY DEF Expire, TypeOK
<1>4. tokens' \in [Token -> TokenRow]
  BY <1>2, <1>3 DEF TypeOK
<1> QED
  BY <1>4 DEF Expire, TypeOK, rowVars, otherVars

LEMMA AbortType == ASSUME TypeOK, NEW r \in Request, Abort(r) PROVE TypeOK'
BY FinishType DEF Abort, TypeOK, rowVars, otherVars

LEMMA NextType == TypeOK /\ [Next]_vars => TypeOK'
<1> SUFFICES ASSUME TypeOK, [Next]_vars PROVE TypeOK'
  OBVIOUS
<1>1. ASSUME NEW r \in Request, RequestStep(r) PROVE TypeOK'
  BY <1>1, AskType, AskSecondFactorType, IssueType, MailChangeType, FindType,
     MarkType, CheckActiveType, SignInType, WriteType, SetVerifiedType,
     TryCodeType, BurnCodeType, CountWrongCodeType, ReadCredentialType,
     FinishAssertionType, FinishEnrollmentType, ManageType, UpsertTotpType,
     ClearCodesType, EnableTotpType, DropTotpType, AbortType DEF RequestStep
<1> QED
  BY <1>1, ExpireType, OtherType DEF Next

\* Every variable keeps its type, and a request is only where its operation
\* can be, with a token wherever it acts on one.
THEOREM TypeCorrect == Spec => []TypeOK
BY InitType, NextType, PTL DEF Spec

-----------------------------------------------------------------------------
(* Tokens are spent once. *)

\* The request has marked its token, and the effect is still to come.
Owes(me) ==
    \/ me.op \in {"signin", "confirmChange"} /\ me.pc \in {"active", "session", "write"}
    \/ me.op = "reset" /\ me.pc = "write"
    \/ me.op = "verify" /\ me.pc \in {"verified", "issue"} /\ me.token # NoToken
    \/ me.op = "otp" /\ me.pc = "issue"
    \/ me.op = "passkeyFinish" /\ me.pc \in {"totp", "issue"}

\* A used token had its effect, or one request owes it, or nobody ever will.
SpentInv ==
    /\ \A t \in Token : /\ tokens[t].kind = "none" => ~tokens[t].used /\ ~tokens[t].there
                        /\ effects[t] \in {0, 1}
                        /\ effects[t] = 1 => tokens[t].used
    /\ \A r \in Request : Owes(requests[r]) =>
         /\ requests[r].token \in Token
         /\ tokens[requests[r].token].used
         /\ effects[requests[r].token] = 0
    /\ \A r, q \in Request :
         r # q /\ Owes(requests[r]) /\ Owes(requests[q]) =>
            requests[r].token # requests[q].token

Revoked == {t \in Issued : ~tokens[t].there /\ ~tokens[t].used}

LEMMA IdleOwes == ~Owes(Idle)
BY DEF Idle, Owes

LEMMA RequestsElsewhere ==
    ASSUME TypeOK, NEW r \in Request, NEW me, requests' = [requests EXCEPT ![r] = me]
    PROVE  requests'[r] = me /\ \A q \in Request : q # r => requests'[q] = requests[q]
BY DEF TypeOK

LEMMA FinishOwes ==
    ASSUME TypeOK, NEW r \in Request, Finish(r)
    PROVE  /\ ~Owes(requests'[r])
           /\ \A q \in Request : q # r => requests'[q] = requests[q]
BY IdleOwes, RequestsElsewhere DEF Finish

LEMMA GoOwes ==
    ASSUME TypeOK, NEW r \in Request, NEW pc, Go(r, pc)
    PROVE  /\ requests'[r].pc = pc /\ requests'[r].op = requests[r].op
           /\ requests'[r].token = requests[r].token
           /\ \A q \in Request : q # r => requests'[q] = requests[q]
<1>1. requests[r] \in RequestState
  BY DEF TypeOK
<1> QED
  BY <1>1 DEF Go, TypeOK, RequestState

\* Steps that neither mark a token nor take effect.
LEMMA SpentKept ==
    ASSUME SpentInv, NEW r \in Request, UNCHANGED effects,
           \A t \in Token : /\ tokens'[t].used = tokens[t].used
                            /\ tokens'[t].kind = "none" =>
                                 /\ tokens[t].kind = "none"
                                 /\ tokens'[t].there = tokens[t].there,
           \A q \in Request : q # r => requests'[q] = requests[q],
           Owes(requests'[r]) => /\ Owes(requests[r])
                                 /\ requests'[r].token = requests[r].token
    PROVE  SpentInv'
BY DEF SpentInv

\* Steps that change no token's row but in its attempts and its expiry.
LEMMA AbstractKept ==
    ASSUME UNCHANGED effects,
           \A t \in Token : /\ tokens'[t].used = tokens[t].used
                            /\ tokens'[t].kind = tokens[t].kind
                            /\ tokens'[t].there = tokens[t].there
    PROVE  UNCHANGED <<Issued, Revoked, effects>>
BY DEF Issued, Revoked

LEMMA QuietRequest ==
    ASSUME TypeOK, SpentInv, NEW r \in Request, UNCHANGED <<tokens, effects>>,
           \A q \in Request : q # r => requests'[q] = requests[q],
           Owes(requests'[r]) => /\ Owes(requests[r])
                                 /\ requests'[r].token = requests[r].token
    PROVE  SpentInv' /\ UNCHANGED <<Issued, Revoked, effects>>
BY SpentKept, AbstractKept

LEMMA AskQuiet ==
    ASSUME TypeOK, SpentInv, NEW r \in Request, Ask(r)
    PROVE  SpentInv' /\ UNCHANGED <<Issued, Revoked, effects>>
<1>1. PICK op \in Asking, pc \in {"totp", "issue"}, kind \in Kind, a \in Address :
         Start(r, op, pc, kind, a)
  <2>1. "login" \in Kind /\ "verify" \in Kind /\ "reset" \in Kind /\ "change" \in Kind
        /\ "passkey" \in Kind /\ "enroll" \in Kind
    BY DEF Kind
  <2>2. Somewhere \in Address /\ user.email \in Address
    BY TokenAssumption DEF Somewhere, TypeOK, User
  <2> QED
    BY <2>1, <2>2 DEF Ask, Login, Resend, Forgot, RequestChange, PasskeyBegin, EnrollBegin, Asking
<1>2. requests'[r].op = op /\ requests'[r].token = NoToken
      /\ \A q \in Request : q # r => requests'[q] = requests[q]
  BY <1>1 DEF Start, TypeOK, Idle
<1>3. ~Owes(requests'[r])
  BY <1>2 DEF Owes, Asking
<1> QED
  BY <1>2, <1>3, QuietRequest DEF Ask, otherVars

LEMMA FindQuiet ==
    ASSUME TypeOK, SpentInv, NEW r \in Request, Find(r)
    PROVE  SpentInv' /\ UNCHANGED <<Issued, Revoked, effects>>
<1>1. PICK op \in Spending, t \in Token :
         /\ Usable(op, t)
         /\ requests' = [requests EXCEPT ![r] =
              IF tokens[t].used
              THEN [Idle EXCEPT !.op = op, !.pc = "verified", !.other = t]
              ELSE [Idle EXCEPT !.op = op, !.pc = AfterFind(op), !.token = t]]
  BY DEF Find
<1>2. \A q \in Request : q # r => requests'[q] = requests[q]
  BY <1>1 DEF TypeOK
<1>3. CASE tokens[t].used
  <2>1. requests'[r].pc = "verified" /\ requests'[r].token = NoToken
    BY <1>1, <1>3 DEF TypeOK, Idle
  <2>2. requests'[r].op = "verify"
    BY <1>1, <1>3 DEF TypeOK, Idle, Usable
  <2> QED
    BY <1>2, <2>1, <2>2, QuietRequest DEF Find, Owes, otherVars
<1>4. CASE ~tokens[t].used
  <2>1. requests'[r].op = op /\ requests'[r].pc = AfterFind(op)
    BY <1>1, <1>4 DEF TypeOK, Idle
  <2>2. ~Owes(requests'[r])
    BY <2>1 DEF Owes, AfterFind, Spending
  <2> QED
    BY <1>2, <2>2, QuietRequest DEF Find, otherVars
<1> QED
  BY <1>3, <1>4

LEMMA AskSecondFactorQuiet ==
    ASSUME TypeOK, SpentInv, NEW r \in Request, AskSecondFactor(r)
    PROVE  SpentInv' /\ UNCHANGED <<Issued, Revoked, effects>>
<1>1. requests[r] \in RequestState /\ Shape(requests[r]) /\ requests[r].pc = "totp"
  BY DEF TypeOK, AskSecondFactor, At
<1>2. /\ requests'[r].op = requests[r].op /\ requests'[r].token = requests[r].token
      /\ requests'[r].pc = "issue"
      /\ \A q \in Request : q # r => requests'[q] = requests[q]
  BY <1>1 DEF AskSecondFactor, TypeOK, RequestState
<1>3. requests[r].op \in {"login", "passkeyFinish"}
  BY <1>1 DEF Shape, Steps
<1> QED
  BY <1>1, <1>2, <1>3, QuietRequest DEF AskSecondFactor, Owes, otherVars

LEMMA CheckActiveQuiet ==
    ASSUME TypeOK, SpentInv, NEW r \in Request, CheckActive(r)
    PROVE  SpentInv' /\ UNCHANGED <<Issued, Revoked, effects>>
<1>1. Shape(requests[r]) /\ requests[r].pc = "active"
  BY DEF TypeOK, CheckActive, At
<1>2. requests[r].op \in {"signin", "otp", "confirmChange", "passkeyFinish", "enrollFinish"}
  BY <1>1 DEF Shape, Steps
<1>3. CASE Finish(r)
  BY <1>3, FinishOwes, QuietRequest DEF CheckActive, otherVars
<1>4. CASE Go(r, AfterActive(requests[r].op))
  BY <1>1, <1>2, <1>4, GoOwes, QuietRequest DEF CheckActive, otherVars, Owes, AfterActive
<1> QED
  BY <1>3, <1>4 DEF CheckActive

LEMMA SetVerifiedQuiet ==
    ASSUME TypeOK, SpentInv, NEW r \in Request, SetVerified(r)
    PROVE  SpentInv' /\ UNCHANGED <<Issued, Revoked, effects>>
<1>1. Shape(requests[r]) /\ requests[r].pc = "verified"
  BY DEF TypeOK, SetVerified, At
<1>2. requests[r].op = "verify"
  BY <1>1 DEF Shape, Steps
<1>3. CASE Finish(r)
  BY <1>3, FinishOwes, QuietRequest DEF SetVerified, otherVars
<1>4. CASE requests[r].token # NoToken /\ Go(r, "issue")
  BY <1>1, <1>2, <1>4, GoOwes, QuietRequest DEF SetVerified, otherVars, Owes
<1> QED
  BY <1>3, <1>4 DEF SetVerified

LEMMA TryCodeQuiet ==
    ASSUME TypeOK, SpentInv, NEW r \in Request, TryCode(r)
    PROVE  SpentInv' /\ UNCHANGED <<Issued, Revoked, effects>>
<1>1. requests[r] \in RequestState /\ Shape(requests[r]) /\ requests[r].pc = "code"
  BY DEF TypeOK, TryCode, At
<1>2. requests[r].op = "otp"
  BY <1>1 DEF Shape, Steps
<1>3. CASE Finish(r)
  BY <1>3, FinishOwes, QuietRequest DEF TryCode, otherVars
<1>4. CASE \E pc \in {"mark", "wrong"} : Go(r, pc)
  BY <1>1, <1>2, <1>4, GoOwes, QuietRequest DEF TryCode, otherVars, Owes
<1>5. ASSUME NEW c, requests' = [requests EXCEPT ![r].pc = "burn", ![r].other = c]
      PROVE  SpentInv' /\ UNCHANGED <<Issued, Revoked, effects>>
  <2>1. /\ requests'[r].pc = "burn" /\ requests'[r].op = "otp"
        /\ \A q \in Request : q # r => requests'[q] = requests[q]
    BY <1>1, <1>2, <1>5 DEF TypeOK, RequestState
  <2> QED
    BY <2>1, QuietRequest DEF TryCode, otherVars, Owes
<1> QED
  BY <1>3, <1>4, <1>5 DEF TryCode

LEMMA ReadCredentialQuiet ==
    ASSUME TypeOK, SpentInv, NEW r \in Request, ReadCredential(r)
    PROVE  SpentInv' /\ UNCHANGED <<Issued, Revoked, effects>>
<1>1. /\ requests[r] \in RequestState /\ Shape(requests[r])
      /\ requests[r].pc = "credential"
  BY DEF TypeOK, ReadCredential, At
<1>2. requests[r].op = "passkeyFinish"
  BY <1>1 DEF Shape, Steps
<1>3. CASE Finish(r)
  BY <1>3, FinishOwes, QuietRequest DEF ReadCredential
<1>4. CASE requests' = [requests EXCEPT ![r].pc = "active",
                 ![r].row = credential.id, ![r].counter = device + 1]
  <2>1. /\ requests'[r].pc = "active" /\ requests'[r].op = "passkeyFinish"
        /\ \A q \in Request : q # r => requests'[q] = requests[q]
    BY <1>1, <1>2, <1>4 DEF TypeOK, RequestState
  <2> QED
    BY <2>1, QuietRequest DEF ReadCredential, Owes
<1> QED
  BY <1>3, <1>4 DEF ReadCredential

LEMMA ManageQuiet ==
    ASSUME TypeOK, SpentInv, NEW r \in Request, Manage(r)
    PROVE  SpentInv' /\ UNCHANGED <<Issued, Revoked, effects>>
<1>1. PICK op \in Managing, pc \in {"upsert", "enable", "drop"} :
         requests' = [requests EXCEPT ![r] =
                        [Idle EXCEPT !.op = op, !.row = totp.id, !.pc = pc]]
  BY DEF Manage
<1>2. requests'[r].op = op /\ \A q \in Request : q # r => requests'[q] = requests[q]
  BY <1>1 DEF TypeOK, Idle
<1>3. ~Owes(requests'[r])
  BY <1>2 DEF Owes, Managing
<1> QED
  BY <1>2, <1>3, QuietRequest DEF Manage, otherVars

LEMMA UpsertTotpQuiet ==
    ASSUME TypeOK, SpentInv, NEW r \in Request, UpsertTotp(r)
    PROVE  SpentInv' /\ UNCHANGED <<Issued, Revoked, effects>>
<1>1. requests[r] \in RequestState /\ Shape(requests[r]) /\ requests[r].pc = "upsert"
  BY DEF TypeOK, UpsertTotp, At
<1>2. requests[r].op = "setup"
  BY <1>1 DEF Shape, Steps
<1>3. /\ requests'[r].op = "setup"
      /\ \A q \in Request : q # r => requests'[q] = requests[q]
  BY <1>1, <1>2 DEF UpsertTotp, TypeOK, RequestState
<1> QED
  BY <1>3, QuietRequest DEF UpsertTotp, Owes, otherVars

LEMMA AbortQuiet ==
    ASSUME TypeOK, SpentInv, NEW r \in Request, Abort(r)
    PROVE  SpentInv' /\ UNCHANGED <<Issued, Revoked, effects>>
BY FinishOwes, QuietRequest DEF Abort, otherVars

LEMMA CountWrongCodeQuiet ==
    ASSUME TypeOK, SpentInv, NEW r \in Request, CountWrongCode(r)
    PROVE  SpentInv' /\ UNCHANGED <<Issued, Revoked, effects>>
<1>1. Mine(r) \in Token
  BY MineType DEF CountWrongCode, At
<1>2. \A t \in Token : /\ tokens'[t].used = tokens[t].used
                       /\ tokens'[t].kind = tokens[t].kind
                       /\ tokens'[t].there = tokens[t].there
  BY <1>1, CountedType DEF CountWrongCode, TypeOK
<1> QED
  BY <1>2, FinishOwes, SpentKept, AbstractKept DEF CountWrongCode

LEMMA OtherQuiet ==
    ASSUME TypeOK, SpentInv,
           \/ RemovePasskey \/ SetActive \/ EditAddress \/ UNCHANGED vars
           \/ \E t \in Token : Expire(t)
    PROVE  SpentInv' /\ UNCHANGED <<Issued, Revoked, effects>>
<1>1. CASE UNCHANGED <<tokens, requests, effects>>
  BY <1>1 DEF SpentInv, Issued, Revoked
<1>2. ASSUME NEW t \in Token, Expire(t)
      PROVE  SpentInv' /\ UNCHANGED <<Issued, Revoked, effects>>
  <2>1. \A u \in Token : tokens[u] \in TokenRow
    BY DEF TypeOK
  <2>2. \A u \in Token : /\ tokens'[u].used = tokens[u].used
                         /\ tokens'[u].kind = tokens[u].kind
                         /\ tokens'[u].there = tokens[u].there
    BY <1>2, <2>1 DEF Expire, TypeOK, TokenRow
  <2>3. UNCHANGED <<requests, effects>>
    BY <1>2 DEF Expire, otherVars
  <2> QED
    BY <2>2, <2>3, AbstractKept DEF SpentInv
<1> QED
  BY <1>1, <1>2 DEF RemovePasskey, SetActive, EditAddress, vars, otherVars

\* A step of the abstract specification, or none.
AbstractStep == [OneTime!Next]_<<Issued, Revoked, effects>>

\* One request marks its token, which no one had marked.
LEMMA MarkOwes ==
    ASSUME TypeOK, SpentInv, NEW r \in Request, Mine(r) \in Token, Taken(Mine(r)),
           tokens' = [tokens EXCEPT ![Mine(r)].used = TRUE], UNCHANGED effects,
           requests'[r].token = Mine(r),
           \A q \in Request : q # r => requests'[q] = requests[q]
    PROVE  SpentInv' /\ UNCHANGED <<Issued, Revoked, effects>>
<1> DEFINE t == Mine(r)
<1>1. /\ tokens'[t].used
      /\ \A u \in Token : /\ tokens'[u].kind = tokens[u].kind
                          /\ tokens'[u].there = tokens[u].there
                          /\ u # t => tokens'[u] = tokens[u]
  BY TakenType
<1>2. tokens[t].there /\ ~tokens[t].used
  BY DEF Taken
<1>3. UNCHANGED <<Issued, Revoked, effects>>
  BY <1>1, <1>2 DEF Issued, Revoked
<1>4. \A q \in Request : Owes(requests[q]) => requests[q].token # t
  BY <1>2 DEF SpentInv
<1>5. effects[t] = 0
  BY <1>2 DEF SpentInv
<1>6. tokens[t].kind # "none"
  BY <1>2 DEF SpentInv
<1> QED
  BY <1>1, <1>2, <1>3, <1>4, <1>5, <1>6 DEF SpentInv

LEMMA MarkSpends ==
    ASSUME TypeOK, SpentInv, NEW r \in Request, Mark(r)
    PROVE  SpentInv' /\ UNCHANGED <<Issued, Revoked, effects>>
<1>1. UNCHANGED effects
  BY DEF Mark, otherVars
<1>2. requests[r] \in RequestState
  BY DEF TypeOK
<1>3. CASE Taken(Mine(r)) /\ tokens' = [tokens EXCEPT ![Mine(r)].used = TRUE]
           /\ requests' = [requests EXCEPT ![r].pc = AfterMark(requests[r].op)]
  <2>1. /\ requests'[r].token = Mine(r)
        /\ \A q \in Request : q # r => requests'[q] = requests[q]
    BY <1>2, <1>3 DEF TypeOK, Mine, RequestState
  <2> QED
    BY <1>1, <1>3, <2>1, MarkShape, MarkOwes
<1>4. CASE /\ tokens' = tokens
           /\ requests' = [requests EXCEPT ![r] =
                [requests[r] EXCEPT !.pc = "verified", !.other = Mine(r),
                                    !.token = NoToken]]
  <2>1. /\ requests'[r].token = NoToken /\ requests'[r].pc = "verified"
        /\ \A q \in Request : q # r => requests'[q] = requests[q]
    BY <1>2, <1>4 DEF TypeOK, RequestState
  <2>2. ~Owes(requests'[r])
    BY <2>1 DEF Owes
  <2> QED
    BY <1>1, <1>4, <2>1, <2>2, QuietRequest
<1>5. CASE tokens' = tokens /\ Finish(r)
  BY <1>1, <1>5, FinishOwes, QuietRequest
<1> QED
  BY <1>3, <1>4, <1>5, MarkShape

LEMMA FinishAssertionSpends ==
    ASSUME TypeOK, SpentInv, NEW r \in Request, FinishAssertion(r)
    PROVE  SpentInv' /\ UNCHANGED <<Issued, Revoked, effects>>
<1>1. UNCHANGED effects /\ Mine(r) \in Token
  BY MineType DEF FinishAssertion, otherVars, At
<1>2. CASE Taken(Mine(r)) /\ tokens' = [tokens EXCEPT ![Mine(r)].used = TRUE]
           /\ Go(r, "totp")
  BY <1>1, <1>2, GoOwes, MarkOwes DEF Mine
<1>3. CASE Finish(r) /\ UNCHANGED tokens
  BY <1>1, <1>3, FinishOwes, QuietRequest
<1> QED
  BY <1>2, <1>3 DEF FinishAssertion, Mine

LEMMA EffectOnce ==
    ASSUME TypeOK, NEW m \in Token, effects[m] = 0, TakesEffect(m)
    PROVE  /\ effects'[m] = 1
           /\ \A t \in Token : t # m => effects'[t] = effects[t]
           /\ effects' = [t \in Token |-> IF t \in {m} THEN 1 ELSE effects[t]]
<1>1. effects \in [Token -> Nat]
  BY DEF TypeOK
<1>2. effects' = [effects EXCEPT ![m] = 1]
  BY <1>1 DEF TakesEffect
<1>3. effects' \in [Token -> Nat]
  BY <1>1, <1>2
<1>4. /\ effects'[m] = 1
      /\ \A t \in Token : t # m => effects'[t] = effects[t]
  BY <1>1, <1>2
<1>5. \A t \in Token : effects'[t] = IF t \in {m} THEN 1 ELSE effects[t]
  BY <1>4
<1> QED
  BY <1>3, <1>4, <1>5

\* The one step that takes effect, of a token that a request marked before.
LEMMA EffectOwed ==
    ASSUME TypeOK, SpentInv, NEW r \in Request, Owes(requests[r]),
           TakesEffect(Mine(r)), ~Owes(requests'[r]),
           \A q \in Request : q # r => requests'[q] = requests[q],
           NEW new \in SUBSET Token, \A t \in new : tokens[t].kind = "none",
           \A t \in new : tokens'[t].kind # "none" /\ ~tokens'[t].used
                          /\ tokens'[t].there,
           \A t \in Token \ new : tokens'[t] = tokens[t]
    PROVE  SpentInv' /\ OneTime!Next
<1> DEFINE m == Mine(r)
<1>1. m \in Token /\ tokens[m].used /\ effects[m] = 0 /\ tokens[m].kind # "none"
  BY DEF SpentInv, Mine
<1>2. /\ effects'[m] = 1
      /\ \A t \in Token : t # m => effects'[t] = effects[t]
      /\ effects' = [t \in Token |-> IF t \in {m} THEN 1 ELSE effects[t]]
  BY <1>1, EffectOnce
<1>3. SpentInv'
  BY <1>1, <1>2 DEF SpentInv, Mine
<1>4. Issued' = Issued \union new /\ Revoked' = Revoked
  BY DEF Issued, Revoked
<1>5. new \subseteq Token \ Issued /\ m \in Issued \ Revoked
  BY <1>1 DEF Issued, Revoked
<1>6. m \in OneTime!Unspent
  BY <1>1, <1>5 DEF OneTime!Unspent, Revoked, Issued
<1>7. OneTime!Spend({m})
  BY <1>2 DEF OneTime!Spend
<1>8. OneTime!Replace(new, {})
  BY <1>4, <1>5 DEF OneTime!Replace, Revoked, Issued
<1> QED
  BY <1>3, <1>6, <1>7, <1>8 DEF OneTime!Next

LEMMA SignInSpends ==
    ASSUME TypeOK, SpentInv, NEW r \in Request, SignIn(r)
    PROVE  SpentInv' /\ AbstractStep
<1>1. Shape(requests[r]) /\ requests[r].pc = "session"
  BY DEF TypeOK, SignIn, At
<1>2. requests[r].op = "signin"
  BY <1>1 DEF Shape, Steps
<1>3. Owes(requests[r])
  BY <1>1, <1>2 DEF Owes
<1>4. CASE TakesEffect(Mine(r))
  <2>1. SpentInv' /\ OneTime!Next
    BY <1>3, <1>4, FinishOwes, EffectOwed, {} \in SUBSET Token DEF SignIn
  <2> QED
    BY <2>1 DEF AbstractStep
<1>5. CASE UNCHANGED effects
  BY <1>5, FinishOwes, QuietRequest DEF SignIn, AbstractStep
<1> QED
  BY <1>4, <1>5 DEF SignIn

LEMMA WriteSpends ==
    ASSUME TypeOK, SpentInv, NEW r \in Request, Write(r)
    PROVE  SpentInv' /\ AbstractStep
<1>1. Shape(requests[r]) /\ requests[r].pc = "write"
  BY DEF TypeOK, Write, At
<1>2. requests[r].op \in {"reset", "confirmChange"}
  BY <1>1 DEF Shape, Steps
<1>3. Owes(requests[r])
  BY <1>1, <1>2 DEF Owes
<1>4. SpentInv' /\ OneTime!Next
  BY <1>3, FinishOwes, EffectOwed, {} \in SUBSET Token DEF Write
<1> QED
  BY <1>4 DEF AbstractStep

LEMMA IssueSpends ==
    ASSUME TypeOK, SpentInv, NEW r \in Request, Issue(r)
    PROVE  SpentInv' /\ AbstractStep
<1>1. PICK t \in Token \ Issued :
         /\ tokens' = [tokens EXCEPT ![t] =
                         NewToken(requests[r].kind, requests[r].address)]
         /\ IF requests[r].op = "requestChange"
            THEN requests' = [requests EXCEPT ![r].pc = "mail", ![r].other = t]
            ELSE Finish(r)
  BY DEF Issue
<1>2. requests[r] \in RequestState /\ Shape(requests[r]) /\ requests[r].pc = "issue"
  BY DEF TypeOK, Issue, At
<1>3. /\ tokens[t].kind = "none" /\ tokens'[t].kind # "none" /\ ~tokens'[t].used
      /\ tokens'[t].there /\ \A u \in Token \ {t} : tokens'[u] = tokens[u]
  BY <1>1, <1>2 DEF Issued, NewToken, TypeOK, RequestState, Kind
<1>4. ~Owes(requests'[r]) /\ \A q \in Request : q # r => requests'[q] = requests[q]
  <2>1. CASE requests[r].op = "requestChange"
    <3>1. requests'[r].op = "requestChange"
          /\ \A q \in Request : q # r => requests'[q] = requests[q]
      BY <1>1, <1>2, <2>1 DEF TypeOK, RequestState
    <3> QED
      BY <3>1 DEF Owes
  <2>2. CASE requests[r].op # "requestChange"
    BY <1>1, <2>2, FinishOwes
  <2> QED
    BY <2>1, <2>2
<1>5. {t} \in SUBSET Token
  BY <1>1
<1>6. CASE Mine(r) \in Token
  <2>1. requests[r].op \in {"otp", "verify", "passkeyFinish"}
    BY <1>2, <1>6, TokenAssumption DEF Shape, Steps, Mine, Spending
  <2>2. Owes(requests[r])
    BY <1>2, <1>6, <2>1, TokenAssumption DEF Owes, Mine
  <2>3. TakesEffect(Mine(r))
    BY <1>6 DEF Issue
  <2>4. SpentInv' /\ OneTime!Next
    BY <1>3, <1>4, <1>5, <2>2, <2>3, EffectOwed
  <2> QED
    BY <2>4 DEF AbstractStep
<1>7. CASE Mine(r) \notin Token
  <2>1. UNCHANGED effects
    BY <1>7 DEF Issue
  <2>2. SpentInv'
    BY <1>3, <1>4, <2>1 DEF SpentInv
  <2>3. Issued' = Issued \union {t} /\ Revoked' = Revoked /\ t \in Token \ Issued
    BY <1>1, <1>3 DEF Issued, Revoked
  <2>4. OneTime!Replace({t}, {})
    BY <2>3 DEF OneTime!Replace, Revoked, Issued
  <2>5. OneTime!Next
    BY <1>5, <2>1, <2>4 DEF OneTime!Next
  <2> QED
    BY <2>2, <2>5 DEF AbstractStep
<1> QED
  BY <1>6, <1>7

LEMMA BurnCodeSpends ==
    ASSUME TypeOK, SpentInv, NEW r \in Request, BurnCode(r)
    PROVE  SpentInv' /\ AbstractStep
<1> DEFINE c == requests[r].other
<1>1. Shape(requests[r]) /\ requests[r].pc = "burn" /\ requests[r] \in RequestState
  BY DEF TypeOK, BurnCode, At
<1>2. c \in Token /\ requests[r].op = "otp"
  BY <1>1 DEF Shape, Steps
<1>3. CASE Taken(c) /\ tokens' = [tokens EXCEPT ![c].used = TRUE]
           /\ TakesEffect(c) /\ Go(r, "mark")
  <2>1. /\ tokens'[c].used
        /\ \A u \in Token : /\ tokens'[u].kind = tokens[u].kind
                            /\ tokens'[u].there = tokens[u].there
                            /\ u # c => tokens'[u] = tokens[u]
    BY <1>2, <1>3, TakenType
  <2>2. tokens[c].there /\ ~tokens[c].used
    BY <1>3 DEF Taken
  <2>3. effects[c] = 0 /\ tokens[c].kind # "none"
    BY <1>2, <2>2 DEF SpentInv
  <2>4. /\ effects'[c] = 1
        /\ \A t \in Token : t # c => effects'[t] = effects[t]
        /\ effects' = [t \in Token |-> IF t \in {c} THEN 1 ELSE effects[t]]
    BY <1>2, <1>3, <2>3, EffectOnce
  <2>5. /\ ~Owes(requests'[r])
        /\ \A q \in Request : q # r => requests'[q] = requests[q]
    BY <1>2, <1>3, GoOwes DEF Owes
  <2>6. \A q \in Request : Owes(requests[q]) => requests[q].token # c
    BY <2>2 DEF SpentInv
  <2>7. SpentInv'
    BY <2>1, <2>2, <2>3, <2>4, <2>5, <2>6 DEF SpentInv
  <2>8. UNCHANGED <<Issued, Revoked>>
    BY <2>1, <2>2 DEF Issued, Revoked
  <2>9. c \in OneTime!Unspent
    BY <1>2, <2>2, <2>3 DEF OneTime!Unspent, Revoked, Issued
  <2>10. OneTime!Spend({c}) /\ OneTime!Replace({}, {})
    BY <2>4, <2>8 DEF OneTime!Spend, OneTime!Replace, Revoked, Issued
  <2>11. OneTime!Next
    BY <2>9, <2>10 DEF OneTime!Next
  <2> QED
    BY <2>7, <2>11 DEF AbstractStep
<1>4. CASE Go(r, "wrong") /\ UNCHANGED <<tokens, effects>>
  BY <1>2, <1>4, GoOwes, QuietRequest DEF Owes, AbstractStep
<1> QED
  BY <1>3, <1>4 DEF BurnCode

LEMMA FinishEnrollmentSpends ==
    ASSUME TypeOK, SpentInv, NEW r \in Request, FinishEnrollment(r)
    PROVE  SpentInv' /\ AbstractStep
<1> DEFINE m == requests[r].token
<1>1. m \in Token
  BY MineType DEF FinishEnrollment, At, Mine
<1>2. CASE Taken(m) /\ tokens' = [tokens EXCEPT ![m].used = TRUE] /\ TakesEffect(m)
  <2>1. /\ tokens'[m].used
        /\ \A u \in Token : /\ tokens'[u].kind = tokens[u].kind
                            /\ tokens'[u].there = tokens[u].there
                            /\ u # m => tokens'[u] = tokens[u]
    BY <1>1, <1>2, TakenType
  <2>2. tokens[m].there /\ ~tokens[m].used
    BY <1>2 DEF Taken
  <2>3. effects[m] = 0 /\ tokens[m].kind # "none"
    BY <1>1, <2>2 DEF SpentInv
  <2>4. /\ effects'[m] = 1
        /\ \A t \in Token : t # m => effects'[t] = effects[t]
        /\ effects' = [t \in Token |-> IF t \in {m} THEN 1 ELSE effects[t]]
    BY <1>1, <1>2, <2>3, EffectOnce
  <2>5. \A q \in Request : Owes(requests[q]) => requests[q].token # m
    BY <2>2 DEF SpentInv
  <2>6. /\ ~Owes(requests'[r])
        /\ \A q \in Request : q # r => requests'[q] = requests[q]
    BY FinishOwes DEF FinishEnrollment
  <2> HIDE DEF m
  <2>7. SpentInv'
    BY <1>1, <2>1, <2>2, <2>3, <2>4, <2>5, <2>6 DEF SpentInv
  <2>8. UNCHANGED <<Issued, Revoked>>
    BY <2>1, <2>2 DEF Issued, Revoked
  <2>9. m \in OneTime!Unspent
    BY <1>1, <2>2, <2>3 DEF OneTime!Unspent, Revoked, Issued
  <2>10. OneTime!Spend({m}) /\ OneTime!Replace({}, {})
    BY <2>4, <2>8 DEF OneTime!Spend, OneTime!Replace, Revoked, Issued
  <2>11. OneTime!Next
    BY <2>9, <2>10 DEF OneTime!Next
  <2> QED
    BY <2>7, <2>11 DEF AbstractStep
<1>3. CASE UNCHANGED <<tokens, effects>>
  BY <1>3, FinishOwes, QuietRequest DEF FinishEnrollment, AbstractStep
<1> QED
  BY <1>2, <1>3 DEF FinishEnrollment

\* Rows are deleted, and new ones issued in the same step.
LEMMA DeletedRevokes ==
    ASSUME TypeOK, SpentInv, NEW S \in SUBSET Issued, NEW new \in SUBSET Token,
           \A t \in new : tokens[t].kind = "none",
           \A t \in new : tokens'[t].kind # "none" /\ ~tokens'[t].used
                          /\ tokens'[t].there,
           \A t \in Token \ new : tokens'[t] = Deleted(S)[t],
           UNCHANGED effects, NEW r \in Request, Finish(r)
    PROVE  SpentInv' /\ AbstractStep
<1> DEFINE old == {t \in S : ~tokens[t].used}
<1>1. S \subseteq Token /\ S \intersect new = {}
  BY DEF Issued
<1>2. \A t \in Token \ new :
         /\ tokens'[t].kind = tokens[t].kind /\ tokens'[t].used = tokens[t].used
         /\ t \notin S => tokens'[t].there = tokens[t].there
         /\ tokens'[t].there => tokens[t].there
  BY DeletedType
<1>3. \A t \in S : ~tokens'[t].there
  <2>1. \A t \in S : Deleted(S)[t] = [tokens[t] EXCEPT !.there = FALSE]
    BY <1>1 DEF Deleted
  <2>2. \A t \in S : tokens[t] \in TokenRow
    BY <1>1 DEF TypeOK
  <2> QED
    BY <1>1, <2>1, <2>2 DEF TokenRow
<1>4. Issued' = Issued \union new
  BY <1>2 DEF Issued
<1>5. Revoked' = Revoked \union old
  BY <1>1, <1>2, <1>3 DEF Issued, Revoked
<1>6. old \subseteq {t \in Issued : effects[t] = 0}
  BY <1>1 DEF SpentInv
<1>7. new \subseteq Token \ Issued /\ old \in SUBSET Token
  BY <1>1 DEF Issued
<1> PICK o \in SUBSET Token : o = old
  BY <1>7
<1> HIDE DEF old
<1>8. OneTime!Replace(new, o)
  BY <1>4, <1>5, <1>6, <1>7 DEF OneTime!Replace, Revoked, Issued
<1>9. OneTime!Next
  BY <1>7, <1>8 DEF OneTime!Next
<1>10. SpentInv'
  <2>1. /\ ~Owes(requests'[r])
        /\ \A q \in Request : q # r => requests'[q] = requests[q]
    BY FinishOwes
  <2>2. \A q \in Request : Owes(requests[q]) => requests[q].token \notin new
    BY DEF SpentInv
  <2>3. \A t \in Token : /\ tokens'[t].kind = "none" => ~tokens'[t].used /\ ~tokens'[t].there
                         /\ effects[t] \in {0, 1}
                         /\ effects[t] = 1 => tokens'[t].used
    BY <1>2 DEF SpentInv
  <2> QED
    BY <1>2, <2>1, <2>2, <2>3 DEF SpentInv
<1> QED
  BY <1>9, <1>10 DEF AbstractStep

LEMMA MailChangeSpends ==
    ASSUME TypeOK, SpentInv, NEW r \in Request, MailChange(r)
    PROVE  SpentInv' /\ AbstractStep
<1>1. PICK gone \in SUBSET {requests[r].other} : tokens' = Deleted(gone)
  BY DEF MailChange
<1>2. Shape(requests[r]) /\ requests[r].pc = "mail"
  BY DEF TypeOK, MailChange, At
<1>3. gone \subseteq Token
  BY <1>2 DEF Shape
<1> DEFINE S == gone \intersect Issued
<1>4. \A t \in gone \ S : tokens[t].kind = "none"
  BY <1>3 DEF Issued
<1>5. CASE gone = S
  <2>1. S \in SUBSET Issued
    OBVIOUS
  <2>2. Finish(r) /\ UNCHANGED effects
    BY DEF MailChange, otherVars
  <2>3. \A t \in Token \ {} : tokens'[t] = Deleted(S)[t]
    BY <1>1, <1>5
  <2> HIDE DEF S
  <2> QED
    BY <2>1, <2>2, <2>3, DeletedRevokes, {} \in SUBSET Token
<1>6. CASE gone # S
  <2>1. PICK t \in gone : tokens[t].kind = "none"
    BY <1>4, <1>6
  <2>2. gone = {t} /\ t \in Token
    BY <1>3, <2>1
  <2>3. ~tokens[t].there /\ tokens[t] \in TokenRow
    BY <2>1, <2>2 DEF SpentInv, TypeOK
  <2>4. [tokens[t] EXCEPT !.there = FALSE] = tokens[t]
    BY <2>3 DEF TokenRow
  <2>5. \A u \in Token : tokens'[u] = tokens[u]
    BY <1>1, <2>2, <2>4 DEF Deleted
  <2>6. /\ tokens' = tokens
    BY <1>1, <2>5 DEF Deleted, TypeOK
  <2>7. Finish(r) /\ UNCHANGED effects
    BY DEF MailChange, otherVars
  <2> QED
    BY <2>6, <2>7, FinishOwes, QuietRequest DEF AbstractStep
<1> QED
  BY <1>5, <1>6

LEMMA BackupIssued == BackupCodes \in SUBSET Issued
BY DEF BackupCodes, Issued

LEMMA ClearCodesSpends ==
    ASSUME TypeOK, SpentInv, NEW r \in Request, ClearCodes(r)
    PROVE  SpentInv' /\ AbstractStep
<1>1. Finish(r) /\ UNCHANGED effects
  BY DEF ClearCodes, otherVars
<1>2. CASE tokens' = tokens
  BY <1>1, <1>2, FinishOwes, QuietRequest DEF AbstractStep
<1>3. CASE tokens' = Deleted(BackupCodes)
  BY <1>1, <1>3, BackupIssued, DeletedRevokes, {} \in SUBSET Token
<1> QED
  BY <1>2, <1>3 DEF ClearCodes

LEMMA EnableTotpSpends ==
    ASSUME TypeOK, SpentInv, NEW r \in Request, EnableTotp(r)
    PROVE  SpentInv' /\ AbstractStep
<1>1. Finish(r) /\ UNCHANGED effects
  BY DEF EnableTotp, otherVars
<1>2. CASE tokens' = tokens
  BY <1>1, <1>2, FinishOwes, QuietRequest DEF AbstractStep
<1>3. ASSUME NEW c \in Token \ Issued,
             tokens' = [Deleted(BackupCodes) EXCEPT ![c] = NewToken("backup", Somewhere)]
      PROVE  SpentInv' /\ AbstractStep
  <2>1. /\ tokens'[c].kind # "none" /\ ~tokens'[c].used /\ tokens'[c].there
        /\ \A t \in Token \ {c} : tokens'[t] = Deleted(BackupCodes)[t]
    BY <1>3, DeletedType DEF NewToken
  <2>2. tokens[c].kind = "none" /\ {c} \in SUBSET Token
    BY <1>3 DEF Issued
  <2> QED
    BY <1>1, <2>1, <2>2, BackupIssued, DeletedRevokes
<1> QED
  BY <1>2, <1>3 DEF EnableTotp

LEMMA DropTotpSpends ==
    ASSUME TypeOK, SpentInv, NEW r \in Request, DropTotp(r)
    PROVE  SpentInv' /\ AbstractStep
<1>1. Finish(r) /\ UNCHANGED effects /\ tokens' = Deleted(BackupCodes)
  BY DEF DropTotp, otherVars
<1> QED
  BY <1>1, BackupIssued, DeletedRevokes, {} \in SUBSET Token

LEMMA SpentInit == Init => SpentInv /\ OneTime!Init
<1> SUFFICES ASSUME Init PROVE SpentInv /\ OneTime!Init
  OBVIOUS
<1>1. \A r \in Request : ~Owes(requests[r])
  BY IdleOwes DEF Init
<1>2. \A t \in Token : ~tokens[t].used /\ tokens[t].kind = "none" /\ ~tokens[t].there
                       /\ effects[t] = 0
  BY DEF Init
<1>3. SpentInv
  BY <1>1, <1>2 DEF SpentInv
<1>4. Issued = {} /\ effects = [t \in Token |-> 0]
  BY <1>2 DEF Issued, Init
<1> QED
  BY <1>3, <1>4 DEF OneTime!Init, Issued

LEMMA SpentNext ==
    TypeOK /\ SpentInv /\ [Next]_vars => SpentInv' /\ AbstractStep
<1> SUFFICES ASSUME TypeOK, SpentInv, [Next]_vars PROVE SpentInv' /\ AbstractStep
  OBVIOUS
<1>1. ASSUME NEW r \in Request, RequestStep(r) PROVE SpentInv' /\ AbstractStep
  <2>1. CASE \/ Ask(r) \/ AskSecondFactor(r) \/ Find(r) \/ Mark(r) \/ CheckActive(r)
             \/ SetVerified(r) \/ TryCode(r) \/ CountWrongCode(r) \/ ReadCredential(r)
             \/ FinishAssertion(r) \/ Manage(r) \/ UpsertTotp(r) \/ Abort(r)
    BY <2>1, AskQuiet, AskSecondFactorQuiet, FindQuiet, MarkSpends, CheckActiveQuiet,
       SetVerifiedQuiet, TryCodeQuiet, CountWrongCodeQuiet, ReadCredentialQuiet,
       FinishAssertionSpends, ManageQuiet, UpsertTotpQuiet, AbortQuiet
       DEF AbstractStep
  <2>2. CASE \/ Issue(r) \/ MailChange(r) \/ SignIn(r) \/ Write(r) \/ BurnCode(r)
             \/ FinishEnrollment(r) \/ ClearCodes(r) \/ EnableTotp(r) \/ DropTotp(r)
    BY <2>2, IssueSpends, MailChangeSpends, SignInSpends, WriteSpends, BurnCodeSpends,
       FinishEnrollmentSpends, ClearCodesSpends, EnableTotpSpends, DropTotpSpends
  <2> QED
    BY <1>1, <2>1, <2>2 DEF RequestStep
<1>2. CASE \/ RemovePasskey \/ SetActive \/ EditAddress \/ UNCHANGED vars
           \/ \E t \in Token : Expire(t)
  BY <1>2, OtherQuiet DEF AbstractStep
<1> QED
  BY <1>1, <1>2 DEF Next

\* AccountTokens implements OneTimeToken: whatever overlaps, each token and
\* backup code takes effect at most once, and never after it was revoked.
THEOREM TokensSpentOnce == Spec => SpentOnce
<1>1. AbstractStep => [OneTime!Next]_(OneTime!vars)
  BY DEF AbstractStep, OneTime!vars, Revoked
<1> QED
  BY <1>1, InitType, NextType, SpentInit, SpentNext, PTL
     DEF Spec, SpentOnce, OneTime!Spec

-----------------------------------------------------------------------------
(* Two action properties that follow from the types. *)

\* The counter of a registered passkey never goes back: a sign-in advances it
\* to what it saw or leaves it, and a new registration is another row.
LEMMA CounterStep ==
    TypeOK /\ [Next]_vars =>
        (credential'.id = credential.id => credential'.counter >= credential.counter)
<1> SUFFICES ASSUME TypeOK, [Next]_vars, credential'.id = credential.id
             PROVE  credential'.counter >= credential.counter
  OBVIOUS
<1>1. credential \in [id : Nat, counter : Nat] /\ rows.credential \in Nat
  BY DEF TypeOK
<1>2. CASE credential' = credential
  BY <1>1, <1>2
<1>3. ASSUME NEW r \in Request, FinishAssertion(r)
      PROVE  credential'.counter >= credential.counter
  <2>1. requests[r].counter \in Nat
    BY DEF TypeOK, RequestState
  <2>2. CASE credential' = [credential EXCEPT
                              !.counter = Advanced(credential.counter, requests[r].counter)]
    <3>1. credential'.counter = Advanced(credential.counter, requests[r].counter)
      BY <1>1, <2>2
    <3> QED
      BY <1>1, <2>1, <3>1 DEF Advanced
  <2> QED
    BY <1>2, <1>3, <2>2 DEF FinishAssertion
<1>4. ASSUME NEW r \in Request, FinishEnrollment(r)
      PROVE  credential'.counter >= credential.counter
  <2>1. CASE credential.id = 0 /\ credential' = [id |-> rows.credential + 1, counter |-> device]
    <3>1. credential'.id = rows.credential + 1
      BY <2>1
    <3> QED
      BY <1>1, <2>1, <3>1
  <2> QED
    BY <1>2, <1>4, <2>1 DEF FinishEnrollment
<1>5. CASE RemovePasskey
  <2>1. credential'.id = 0 /\ credential.id # 0
    BY <1>5 DEF RemovePasskey
  <2> QED
    BY <2>1
<1>6. CASE \/ SetActive \/ EditAddress \/ UNCHANGED vars \/ \E t \in Token : Expire(t)
  BY <1>2, <1>6 DEF SetActive, EditAddress, Expire, vars, rowVars
<1>7. ASSUME NEW r \in Request, RequestStep(r), ~FinishAssertion(r), ~FinishEnrollment(r)
      PROVE  credential' = credential
  BY <1>7 DEF RequestStep, Ask, AskSecondFactor, Issue, MailChange, Find, Mark,
     CheckActive, SignIn, Write, SetVerified, TryCode, BurnCode, CountWrongCode,
     ReadCredential, Manage, UpsertTotp, ClearCodes, EnableTotp, DropTotp, Abort, rowVars
<1> QED
  BY <1>2, <1>3, <1>4, <1>5, <1>6, <1>7 DEF Next

THEOREM PasskeyCounterGrows == Spec => CounterGrows
<1>1. TypeOK /\ [Next]_vars =>
        [credential'.id = credential.id =>
            credential'.counter >= credential.counter]_vars
  BY CounterStep
<1> QED
  BY <1>1, TypeCorrect, PTL DEF Spec, CounterGrows

\* The second factor is enabled only by a confirmation, and for the row that
\* the confirmation read.
LEMMA EnableStep == TypeOK /\ [Next]_vars => EnabledAsRead
<1> SUFFICES ASSUME TypeOK, [Next]_vars, totp'.enabled, ~totp.enabled
             PROVE  \E r \in Request : At(r, "enable") /\ requests[r].row = totp'.id
  BY DEF EnabledAsRead
<1>1. totp \in [id : Nat, enabled : BOOLEAN]
  BY DEF TypeOK
<1>2. ASSUME NEW r \in Request, EnableTotp(r)
      PROVE  At(r, "enable") /\ requests[r].row = totp'.id
  <2>1. SameTotp(r) /\ totp' = [totp EXCEPT !.enabled = TRUE]
    BY <1>2 DEF EnableTotp
  <2>2. totp'.id = totp.id
    BY <1>1, <2>1
  <2> QED
    BY <1>2, <2>1, <2>2 DEF EnableTotp, SameTotp
<1>3. ASSUME NEW r \in Request, UpsertTotp(r) PROVE FALSE
  <2>1. \/ totp' = [totp EXCEPT !.enabled = FALSE]
        \/ totp' = [id |-> rows.totp + 1, enabled |-> FALSE]
    BY <1>3 DEF UpsertTotp
  <2> QED
    BY <1>1, <2>1
<1>4. ASSUME NEW r \in Request, DropTotp(r) PROVE FALSE
  BY <1>4 DEF DropTotp
<1>5. ASSUME NEW r \in Request, RequestStep(r),
             ~EnableTotp(r), ~UpsertTotp(r), ~DropTotp(r)
      PROVE  totp' = totp
  BY <1>5 DEF RequestStep, Ask, AskSecondFactor, Issue, MailChange, Find, Mark,
     CheckActive, SignIn, Write, SetVerified, TryCode, BurnCode, CountWrongCode,
     ReadCredential, FinishAssertion, FinishEnrollment, Manage, ClearCodes, Abort, rowVars
<1>6. CASE \/ RemovePasskey \/ SetActive \/ EditAddress \/ UNCHANGED vars
           \/ \E t \in Token : Expire(t)
  BY <1>6 DEF RemovePasskey, SetActive, EditAddress, Expire, vars, rowVars
<1> QED
  BY <1>2, <1>3, <1>4, <1>5, <1>6 DEF Next

THEOREM TotpEnabledAsRead == Spec => EnablesWhatItRead
BY EnableStep, TypeCorrect, PTL DEF Spec, EnablesWhatItRead

-----------------------------------------------------------------------------
(* What most steps leave alone. *)

\* Only r moves, and it goes on as it is or becomes a request that neither
\* guesses nor verifies.
Follows(r) ==
    LET me == requests[r]
        you == requests'[r]
    IN /\ \A q \in Request : q # r => requests'[q] = requests[q]
       /\ \/ you.op \notin {"otp", "verify", "resend"} /\ you.kind # "verify"
          \/ /\ you.op = me.op /\ you.token = me.token /\ you.address = me.address
             /\ you.op = "verify" => you.other = me.other
             /\ you.kind = me.kind \/ you.kind # "verify"

\* What the two invariants below look at in the rows.
RowsKept ==
    \A t \in Token : /\ tokens'[t].kind = tokens[t].kind
                     /\ tokens'[t].attempts = tokens[t].attempts
                     /\ tokens'[t].mailedTo = tokens[t].mailedTo

LEMMA FollowsGo ==
    ASSUME TypeOK, NEW r \in Request, NEW pc, Go(r, pc)
    PROVE  Follows(r)
<1>1. requests[r] \in RequestState
  BY DEF TypeOK
<1>2. /\ requests'[r] = [requests[r] EXCEPT !.pc = pc]
      /\ \A q \in Request : q # r => requests'[q] = requests[q]
  BY DEF Go, TypeOK
<1>3. /\ requests'[r].op = requests[r].op /\ requests'[r].token = requests[r].token
      /\ requests'[r].other = requests[r].other
      /\ requests'[r].address = requests[r].address
      /\ requests'[r].kind = requests[r].kind
  BY <1>1, <1>2 DEF RequestState
<1> QED
  BY <1>2, <1>3 DEF Follows

LEMMA FollowsFinish ==
    ASSUME TypeOK, NEW r \in Request, Finish(r)
    PROVE  Follows(r)
<1>1. Idle.op = "none" /\ Idle.kind = "login"
  BY DEF Idle
<1>2. /\ requests'[r] = Idle
      /\ \A q \in Request : q # r => requests'[q] = requests[q]
  BY DEF Finish, TypeOK
<1> QED
  BY <1>1, <1>2 DEF Follows

LEMMA FollowsSecondFactor ==
    ASSUME TypeOK, NEW r \in Request, AskSecondFactor(r)
    PROVE  Follows(r)
<1>1. requests[r] \in RequestState
  BY DEF TypeOK
<1>2. PICK kind \in {"login", "mfa"} :
         requests' = [requests EXCEPT ![r].pc = "issue", ![r].kind = kind]
  BY DEF AskSecondFactor
<1>3. /\ \A q \in Request : q # r => requests'[q] = requests[q]
      /\ requests'[r].op = requests[r].op /\ requests'[r].token = requests[r].token
      /\ requests'[r].other = requests[r].other
      /\ requests'[r].address = requests[r].address
      /\ requests'[r].kind = kind
  BY <1>1, <1>2 DEF RequestState, TypeOK
<1> QED
  BY <1>3 DEF Follows

LEMMA FollowsTryCode ==
    ASSUME TypeOK, NEW r \in Request, TryCode(r)
    PROVE  Follows(r)
<1>1. requests[r] \in RequestState /\ Shape(requests[r]) /\ requests[r].pc = "code"
  BY DEF TypeOK, TryCode, At
<1>2. requests[r].op = "otp"
  BY <1>1 DEF Shape, Steps
<1>3. ASSUME NEW c, requests' = [requests EXCEPT ![r].pc = "burn", ![r].other = c]
      PROVE  Follows(r)
  <2>1. /\ \A q \in Request : q # r => requests'[q] = requests[q]
        /\ requests'[r].op = requests[r].op /\ requests'[r].token = requests[r].token
        /\ requests'[r].address = requests[r].address
        /\ requests'[r].kind = requests[r].kind
    BY <1>1, <1>3 DEF RequestState, TypeOK
  <2> QED
    BY <1>2, <2>1 DEF Follows
<1> QED
  BY <1>3, FollowsFinish, FollowsGo DEF TryCode

LEMMA FollowsReadCredential ==
    ASSUME TypeOK, NEW r \in Request, ReadCredential(r)
    PROVE  Follows(r)
<1>1. requests[r] \in RequestState
  BY DEF TypeOK
<1>2. CASE requests' = [requests EXCEPT ![r].pc = "active",
                 ![r].row = credential.id, ![r].counter = device + 1]
  <2>1. /\ \A q \in Request : q # r => requests'[q] = requests[q]
        /\ requests'[r].op = requests[r].op /\ requests'[r].token = requests[r].token
        /\ requests'[r].other = requests[r].other
        /\ requests'[r].address = requests[r].address
        /\ requests'[r].kind = requests[r].kind
    BY <1>1, <1>2 DEF RequestState, TypeOK
  <2> QED
    BY <2>1 DEF Follows
<1> QED
  BY <1>2, FollowsFinish DEF ReadCredential

LEMMA FollowsManage ==
    ASSUME TypeOK, NEW r \in Request, Manage(r)
    PROVE  Follows(r)
<1>1. PICK op \in Managing, pc \in {"upsert", "enable", "drop"} :
         requests' = [requests EXCEPT ![r] =
                        [Idle EXCEPT !.op = op, !.row = totp.id, !.pc = pc]]
  BY DEF Manage
<1>2. /\ \A q \in Request : q # r => requests'[q] = requests[q]
      /\ requests'[r].op = op /\ requests'[r].kind = "login"
  BY <1>1 DEF TypeOK, Idle
<1> QED
  BY <1>2 DEF Follows, Managing

LEMMA FollowsUpsert ==
    ASSUME TypeOK, NEW r \in Request, UpsertTotp(r)
    PROVE  Follows(r)
<1>1. requests[r] \in RequestState
  BY DEF TypeOK
<1>2. /\ \A q \in Request : q # r => requests'[q] = requests[q]
      /\ requests'[r].op = requests[r].op /\ requests'[r].token = requests[r].token
      /\ requests'[r].other = requests[r].other
      /\ requests'[r].address = requests[r].address
      /\ requests'[r].kind = requests[r].kind
  BY <1>1 DEF UpsertTotp, RequestState, TypeOK
<1> QED
  BY <1>2 DEF Follows

LEMMA RowsDeleted == ASSUME TypeOK, NEW S, tokens' = Deleted(S) PROVE RowsKept
BY DeletedType DEF RowsKept

LEMMA RowsTaken ==
    ASSUME TypeOK, NEW t \in Token, tokens' = [tokens EXCEPT ![t].used = TRUE]
    PROVE  RowsKept
BY TakenType DEF RowsKept

\* The quiet steps of a request: no row, no account and no count is changed
\* in what the invariants look at.
LEMMA QuietStep ==
    ASSUME TypeOK, NEW r \in Request,
           \/ AskSecondFactor(r) \/ MailChange(r) \/ CheckActive(r) \/ SignIn(r)
           \/ TryCode(r) \/ BurnCode(r) \/ ReadCredential(r) \/ FinishAssertion(r)
           \/ FinishEnrollment(r) \/ Manage(r) \/ UpsertTotp(r) \/ ClearCodes(r)
           \/ DropTotp(r) \/ Abort(r)
    PROVE  Follows(r) /\ RowsKept /\ UNCHANGED <<user, guesses>>
<1>1. CASE \/ AskSecondFactor(r) \/ CheckActive(r) \/ SignIn(r) \/ TryCode(r)
           \/ ReadCredential(r) \/ Manage(r) \/ UpsertTotp(r) \/ Abort(r)
  <2>1. Follows(r)
    BY <1>1, FollowsSecondFactor, FollowsGo, FollowsFinish, FollowsTryCode,
       FollowsReadCredential, FollowsManage, FollowsUpsert
       DEF CheckActive, SignIn, Abort
  <2>2. UNCHANGED <<tokens, user, guesses>>
    BY <1>1 DEF AskSecondFactor, CheckActive, SignIn, TryCode, ReadCredential,
       Manage, UpsertTotp, Abort, rowVars, otherVars
  <2> QED
    BY <2>1, <2>2 DEF RowsKept
<1>2. CASE MailChange(r) \/ ClearCodes(r) \/ DropTotp(r)
  <2>1. Follows(r)
    BY <1>2, FollowsFinish DEF MailChange, ClearCodes, DropTotp
  <2>2. UNCHANGED <<user, guesses>>
    BY <1>2 DEF MailChange, ClearCodes, DropTotp, rowVars, otherVars
  <2>3. RowsKept
    <3>1. CASE MailChange(r)
      BY <3>1, RowsDeleted DEF MailChange
    <3>2. CASE ClearCodes(r) \/ DropTotp(r)
      BY <3>2, RowsDeleted DEF ClearCodes, DropTotp, RowsKept
    <3> QED
      BY <1>2, <3>1, <3>2
  <2> QED
    BY <2>1, <2>2, <2>3
<1>3. CASE BurnCode(r) \/ FinishAssertion(r) \/ FinishEnrollment(r)
  <2>1. Follows(r)
    BY <1>3, FollowsFinish, FollowsGo DEF BurnCode, FinishAssertion, FinishEnrollment
  <2>2. UNCHANGED <<user, guesses>>
    BY <1>3 DEF BurnCode, FinishAssertion, FinishEnrollment, rowVars, otherVars
  <2>3. requests[r].pc = "burn" => requests[r].other \in Token
    BY DEF TypeOK, Shape
  <2>4. requests[r].pc = "commit" => requests[r].token \in Token
    BY MineType DEF Mine
  <2>5. tokens' = tokens \/ \E t \in Token : tokens' = [tokens EXCEPT ![t].used = TRUE]
    BY <1>3, <2>3, <2>4 DEF BurnCode, FinishAssertion, FinishEnrollment, At
  <2> QED
    BY <2>1, <2>2, <2>5, RowsTaken DEF RowsKept
<1> QED
  BY <1>1, <1>2, <1>3

-----------------------------------------------------------------------------
(* The limit of wrong codes. *)

GuessInv ==
    /\ \A t \in Token : /\ guesses[t] = tokens[t].attempts
                        /\ tokens[t].kind = "none" => tokens[t].attempts = 0
    /\ \A r \in Request : requests[r].op = "otp" =>
         /\ requests[r].token \in Token
         /\ tokens[requests[r].token].kind # "none"
    /\ GuessLimit

LEMMA GuessingFinite ==
    ASSUME NEW t
    PROVE  /\ IsFiniteSet(Guessing(t)) /\ Cardinality(Guessing(t)) \in Nat
           /\ Cardinality(Request) \in Nat
           /\ Cardinality(Guessing(t)) <= Cardinality(Request)
<1>1. Guessing(t) \subseteq Request /\ IsFiniteSet(Request)
  BY TokenAssumption DEF Guessing
<1> QED
  BY <1>1, FS_Subset, FS_CardinalityType

\* No request more guesses: neither does the bound move.
LEMMA GuessingShrinks ==
    ASSUME TypeOK, GuessLimit, UNCHANGED guesses, NEW t \in Token,
           Guessing(t)' \subseteq Guessing(t)
    PROVE  guesses'[t] + Cardinality(Guessing(t)') <=
               MaxAttempts + Cardinality(Request) - 1
<1>1. /\ IsFiniteSet(Guessing(t)) /\ Cardinality(Guessing(t)) \in Nat
      /\ Cardinality(Request) \in Nat
  BY GuessingFinite
<1>2. /\ Cardinality(Guessing(t)') <= Cardinality(Guessing(t))
      /\ Cardinality(Guessing(t)') \in Nat
  BY <1>1, FS_Subset, FS_CardinalityType
<1>3. guesses[t] + Cardinality(Guessing(t)) <= MaxAttempts + Cardinality(Request) - 1
  BY DEF GuessLimit
<1>4. guesses[t] \in Nat /\ MaxAttempts \in Nat
  BY TokenAssumption DEF TypeOK
<1> QED
  BY <1>1, <1>2, <1>3, <1>4

LEMMA GuessKept ==
    ASSUME TypeOK, GuessInv, NEW r \in Request, UNCHANGED guesses,
           \A q \in Request : q # r => requests'[q] = requests[q],
           requests'[r].op = "otp" => /\ requests[r].op = "otp"
                                      /\ requests'[r].token = requests[r].token,
           \A t \in Token : /\ tokens'[t].attempts = tokens[t].attempts
                            /\ tokens'[t].kind = "none" => tokens[t].kind = "none"
    PROVE  GuessInv'
<1>1. \A q \in Request : requests'[q].op = "otp" =>
         /\ requests[q].op = "otp" /\ requests'[q].token = requests[q].token
  OBVIOUS
<1>2. \A t \in Token : Guessing(t)' \subseteq Guessing(t)
  BY <1>1 DEF Guessing
<1>3. GuessLimit'
  <2> SUFFICES ASSUME NEW t \in Token
               PROVE  guesses'[t] + Cardinality(Guessing(t)') <=
                          MaxAttempts + Cardinality(Request) - 1
    BY DEF GuessLimit
  <2> QED
    BY <1>2, GuessingShrinks DEF GuessInv
<1>4. \A q \in Request : requests'[q].op = "otp" =>
         /\ requests'[q].token \in Token
         /\ tokens'[requests'[q].token].kind # "none"
  BY <1>1 DEF GuessInv
<1>5. \A t \in Token : /\ guesses'[t] = tokens'[t].attempts
                       /\ tokens'[t].kind = "none" => tokens'[t].attempts = 0
  BY DEF GuessInv
<1> QED
  BY <1>3, <1>4, <1>5 DEF GuessInv

LEMMA GuessInit == Init => GuessInv
<1> SUFFICES ASSUME Init PROVE GuessInv
  OBVIOUS
<1>1. \A r \in Request : requests[r].op = "none"
  BY DEF Init, Idle
<1>2. \A t \in Token : guesses[t] = 0 /\ tokens[t].attempts = 0
  BY DEF Init
<1>3. ASSUME NEW t \in Token
      PROVE  guesses[t] + Cardinality(Guessing(t)) <=
                 MaxAttempts + Cardinality(Request) - 1
  <2>1. Guessing(t) = {}
    BY <1>1 DEF Guessing
  <2>2. Cardinality(Guessing(t)) = 0
    BY <2>1, FS_EmptySet
  <2> QED
    BY <1>2, <2>2, GuessingFinite, TokenAssumption
<1> QED
  BY <1>1, <1>2, <1>3 DEF GuessInv, GuessLimit

\* What a request becomes that brings a token.
Found(r, op, t) ==
    /\ Usable(op, t)
    /\ requests' = [requests EXCEPT ![r] =
         IF tokens[t].used
         THEN [Idle EXCEPT !.op = op, !.pc = "verified", !.other = t]
         ELSE [Idle EXCEPT !.op = op, !.pc = AfterFind(op), !.token = t]]

LEMMA FindFacts ==
    ASSUME TypeOK, NEW r \in Request, NEW op \in Spending, NEW t \in Token,
           Found(r, op, t)
    PROVE  /\ \A q \in Request : q # r => requests'[q] = requests[q]
           /\ requests'[r].op = op /\ requests'[r].kind = "login"
           /\ tokens[t].kind = Spends(op)
           /\ \/ requests'[r].token = t
              \/ op = "verify" /\ requests'[r].token = NoToken /\ requests'[r].other = t
           /\ op = "otp" => tokens[t].attempts < MaxAttempts
<1>1. CASE tokens[t].used
  BY <1>1 DEF Found, TypeOK, Idle, Usable
<1>2. CASE ~tokens[t].used
  BY <1>2 DEF Found, TypeOK, Idle, Usable
<1> QED
  BY <1>1, <1>2

LEMMA FindGuess ==
    ASSUME TypeOK, GuessInv, NEW r \in Request, Find(r)
    PROVE  GuessInv'
<1>1. PICK op \in Spending, t \in Token : Found(r, op, t)
  BY DEF Find, Found
<1>2. UNCHANGED <<tokens, guesses>>
  BY DEF Find, otherVars
<1>3. /\ \A q \in Request : q # r => requests'[q] = requests[q]
      /\ requests'[r].op = op
      /\ op = "otp" => requests'[r].token = t /\ tokens[t].attempts < MaxAttempts
      /\ tokens[t].kind = Spends(op)
  BY <1>1, FindFacts
<1>4. CASE op # "otp"
  BY <1>2, <1>3, <1>4, GuessKept
<1>5. CASE op = "otp"
  <2>1. ASSUME NEW u \in Token
        PROVE  guesses'[u] + Cardinality(Guessing(u)') <=
                   MaxAttempts + Cardinality(Request) - 1
    <3>1. CASE u = t
      <4>1. /\ Cardinality(Guessing(u)') \in Nat /\ Cardinality(Request) \in Nat
            /\ Cardinality(Guessing(u)') <= Cardinality(Request)
        <5>1. Guessing(u)' \subseteq Request /\ IsFiniteSet(Request)
          BY TokenAssumption DEF Guessing
        <5> QED
          BY <5>1, FS_Subset, FS_CardinalityType
      <4>2. guesses'[u] < MaxAttempts /\ guesses'[u] \in Nat /\ MaxAttempts \in Nat
        BY <1>2, <1>3, <1>5, <3>1, TokenAssumption DEF GuessInv, TypeOK
      <4> QED
        BY <4>1, <4>2
    <3>2. CASE u # t
      <4>1. Guessing(u)' \subseteq Guessing(u)
        BY <1>3, <1>5, <3>2 DEF Guessing
      <4> QED
        BY <1>2, <4>1, GuessingShrinks DEF GuessInv
    <3> QED
      BY <3>1, <3>2
  <2>2. tokens[t].kind # "none"
    BY <1>3, <1>5 DEF Spends
  <2> QED
    BY <1>2, <1>3, <1>5, <2>1, <2>2 DEF GuessInv, GuessLimit
<1> QED
  BY <1>4, <1>5

LEMMA CountGuess ==
    ASSUME TypeOK, GuessInv, NEW r \in Request, CountWrongCode(r)
    PROVE  GuessInv'
<1> DEFINE m == Mine(r)
<1>1. Shape(requests[r]) /\ requests[r].pc = "wrong"
  BY DEF TypeOK, CountWrongCode, At
<1>2. requests[r].op = "otp" /\ m \in Token /\ m = requests[r].token
  BY <1>1 DEF Shape, Steps, Spending, Mine
<1>3. /\ \A q \in Request : q # r => requests'[q] = requests[q]
      /\ requests'[r].op # "otp"
  BY DEF CountWrongCode, Finish, TypeOK, Idle
<1>4. /\ tokens'[m].attempts = tokens[m].attempts + 1
      /\ tokens'[m].kind = tokens[m].kind
      /\ \A t \in Token : t # m => tokens'[t] = tokens[t]
  BY <1>2, CountedType DEF CountWrongCode, TypeOK
<1>5. /\ guesses'[m] = guesses[m] + 1
      /\ \A t \in Token : t # m => guesses'[t] = guesses[t]
  BY <1>2 DEF CountWrongCode, TypeOK
<1>6. tokens[m].kind # "none"
  BY <1>2 DEF GuessInv
<1> HIDE DEF m
<1>7. ASSUME NEW t \in Token
      PROVE  guesses'[t] + Cardinality(Guessing(t)') <=
                 MaxAttempts + Cardinality(Request) - 1
  <2>1. /\ IsFiniteSet(Guessing(t)) /\ Cardinality(Guessing(t)) \in Nat
        /\ Cardinality(Request) \in Nat
    BY GuessingFinite
  <2>2. guesses[t] + Cardinality(Guessing(t)) <= MaxAttempts + Cardinality(Request) - 1
    BY DEF GuessInv, GuessLimit
  <2>3. guesses[t] \in Nat /\ MaxAttempts \in Nat
    BY TokenAssumption DEF TypeOK
  <2>4. CASE t = m
    <3>1. r \in Guessing(t) /\ Guessing(t)' = Guessing(t) \ {r}
      BY <1>2, <1>3, <2>4 DEF Guessing
    <3>2. Cardinality(Guessing(t)') = Cardinality(Guessing(t)) - 1
      BY <2>1, <3>1, FS_RemoveElement
    <3> QED
      BY <1>5, <2>1, <2>2, <2>3, <2>4, <3>2
  <2>5. CASE t # m
    <3>1. Guessing(t)' \subseteq Guessing(t)
      BY <1>3 DEF Guessing
    <3>2. /\ Cardinality(Guessing(t)') <= Cardinality(Guessing(t))
          /\ Cardinality(Guessing(t)') \in Nat
      BY <2>1, <3>1, FS_Subset, FS_CardinalityType
    <3> QED
      BY <1>5, <2>1, <2>2, <2>3, <2>5, <3>2
  <2> QED
    BY <2>4, <2>5
<1>8. \A t \in Token : /\ guesses'[t] = tokens'[t].attempts
                       /\ tokens'[t].kind = "none" => tokens'[t].attempts = 0
  BY <1>2, <1>4, <1>5, <1>6 DEF GuessInv
<1>9. \A q \in Request : requests'[q].op = "otp" =>
         /\ requests'[q].token \in Token
         /\ tokens'[requests'[q].token].kind # "none"
  BY <1>3, <1>4, <1>6 DEF GuessInv
<1> QED
  BY <1>7, <1>8, <1>9 DEF GuessInv, GuessLimit

\* What a request becomes that asks for a token.
LEMMA AskFacts ==
    ASSUME TypeOK, NEW r \in Request, Ask(r)
    PROVE  /\ \A q \in Request : q # r => requests'[q] = requests[q]
           /\ requests'[r].op \in Asking /\ requests'[r].token = NoToken
           /\ requests'[r].kind = "verify" => requests'[r].op = "resend"
           /\ requests'[r].op = "resend" => requests'[r].address = user.email
           /\ UNCHANGED <<tokens, user, guesses>>
<1>1. PICK op \in Asking, pc \in {"totp", "issue"}, kind \in Kind, a \in Address :
         /\ Start(r, op, pc, kind, a)
         /\ kind = "verify" => op = "resend"
         /\ op = "resend" => a = user.email
  <2>1. "login" \in Kind /\ "verify" \in Kind /\ "reset" \in Kind /\ "change" \in Kind
        /\ "passkey" \in Kind /\ "enroll" \in Kind
    BY DEF Kind
  <2>2. Somewhere \in Address /\ user.email \in Address
    BY TokenAssumption DEF Somewhere, TypeOK, User
  <2> QED
    BY <2>1, <2>2 DEF Ask, Login, Resend, Forgot, RequestChange, PasskeyBegin, EnrollBegin, Asking
<1>2. /\ requests'[r].op = op /\ requests'[r].token = NoToken
      /\ requests'[r].kind = kind /\ requests'[r].address = a
      /\ \A q \in Request : q # r => requests'[q] = requests[q]
  BY <1>1 DEF Start, TypeOK, Idle
<1> QED
  BY <1>1, <1>2 DEF Ask, rowVars, otherVars

\* A row is new, of the kind and for the address that the request carries.
LEMMA IssueFacts ==
    ASSUME TypeOK, NEW r \in Request, Issue(r)
    PROVE  /\ UNCHANGED <<user, guesses>>
           /\ \A q \in Request : q # r => requests'[q] = requests[q]
           /\ \/ requests'[r].op = "none" /\ requests'[r].kind = "login"
              \/ /\ requests'[r].op = "requestChange"
                 /\ requests'[r].op = requests[r].op /\ requests'[r].kind = requests[r].kind
           /\ \E t \in Token :
                /\ tokens[t].kind = "none" /\ tokens'[t].attempts = 0
                /\ tokens'[t].kind = requests[r].kind /\ tokens'[t].kind # "none"
                /\ tokens'[t].mailedTo = requests[r].address
                /\ \A u \in Token : u # t => tokens'[u] = tokens[u]
<1>1. requests[r] \in RequestState
  BY DEF TypeOK
<1>2. PICK t \in Token \ Issued :
         /\ tokens' = [tokens EXCEPT ![t] =
                         NewToken(requests[r].kind, requests[r].address)]
         /\ IF requests[r].op = "requestChange"
            THEN requests' = [requests EXCEPT ![r].pc = "mail", ![r].other = t]
            ELSE Finish(r)
  BY DEF Issue
<1>3. /\ tokens[t].kind = "none" /\ tokens'[t].attempts = 0
      /\ tokens'[t].kind = requests[r].kind
      /\ tokens'[t].mailedTo = requests[r].address
      /\ \A u \in Token : u # t => tokens'[u] = tokens[u]
  BY <1>2 DEF Issued, TypeOK, NewToken
<1>4. requests[r].kind # "none"
  BY <1>1 DEF RequestState, Kind
<1>5. CASE Finish(r)
  <2>1. requests'[r] = Idle /\ \A q \in Request : q # r => requests'[q] = requests[q]
    BY <1>5 DEF Finish, TypeOK
  <2>2. Idle.op = "none" /\ Idle.kind = "login"
    BY DEF Idle
  <2> QED
    BY <1>3, <1>4, <2>1, <2>2 DEF Issue, rowVars
<1>6. CASE /\ requests[r].op = "requestChange"
           /\ requests' = [requests EXCEPT ![r].pc = "mail", ![r].other = t]
  <2>1. /\ \A q \in Request : q # r => requests'[q] = requests[q]
        /\ requests'[r].op = requests[r].op /\ requests'[r].kind = requests[r].kind
    BY <1>1, <1>6 DEF RequestState, TypeOK
  <2> QED
    BY <1>3, <1>4, <1>6, <2>1 DEF Issue, rowVars
<1> QED
  BY <1>2, <1>5, <1>6

\* The confirmation of the second factor issues backup codes.
LEMMA EnableFacts ==
    ASSUME TypeOK, NEW r \in Request, EnableTotp(r)
    PROVE  /\ UNCHANGED <<user, guesses>> /\ Follows(r)
           /\ \A t \in Token :
                /\ tokens'[t].attempts = 0 \/ tokens'[t].attempts = tokens[t].attempts
                /\ \/ tokens'[t].kind = tokens[t].kind
                   \/ tokens[t].kind = "none" /\ tokens'[t].kind = "backup"
                /\ tokens[t].kind # "none" =>
                     /\ tokens'[t].attempts = tokens[t].attempts
                     /\ tokens'[t].mailedTo = tokens[t].mailedTo
<1>1. UNCHANGED <<user, guesses>> /\ Follows(r)
  BY FollowsFinish DEF EnableTotp, otherVars
<1>2. CASE tokens' = tokens
  BY <1>1, <1>2
<1>3. ASSUME NEW c \in Token \ Issued,
             tokens' = [Deleted(BackupCodes) EXCEPT ![c] = NewToken("backup", Somewhere)]
      PROVE  \A t \in Token :
                /\ tokens'[t].attempts = 0 \/ tokens'[t].attempts = tokens[t].attempts
                /\ \/ tokens'[t].kind = tokens[t].kind
                   \/ tokens[t].kind = "none" /\ tokens'[t].kind = "backup"
                /\ tokens[t].kind # "none" =>
                     /\ tokens'[t].attempts = tokens[t].attempts
                     /\ tokens'[t].mailedTo = tokens[t].mailedTo
  <2>1. /\ tokens'[c].kind = "backup" /\ tokens'[c].attempts = 0
        /\ \A t \in Token \ {c} : tokens'[t] = Deleted(BackupCodes)[t]
    BY <1>3, DeletedType DEF NewToken
  <2>2. tokens[c].kind = "none"
    BY <1>3 DEF Issued
  <2> QED
    BY <2>1, <2>2, DeletedType
<1> QED
  BY <1>1, <1>2, <1>3 DEF EnableTotp

LEMMA MarkFacts ==
    ASSUME TypeOK, NEW r \in Request, Mark(r)
    PROVE  /\ RowsKept /\ UNCHANGED <<user, guesses>>
           /\ \/ Follows(r)
              \/ /\ requests[r].op = "verify" /\ requests'[r].op = "verify"
                 /\ requests[r].token \in Token
                 /\ requests'[r].other = requests[r].token
                 /\ requests'[r].token = NoToken
                 /\ requests'[r].kind = requests[r].kind
                 /\ \A q \in Request : q # r => requests'[q] = requests[q]
<1>1. RowsKept /\ UNCHANGED <<user, guesses>>
  BY MarkShape, RowsTaken DEF RowsKept, Mark, rowVars, otherVars
<1>2. requests[r] \in RequestState
  BY DEF TypeOK
<1>3. CASE /\ requests[r].op = "verify"
           /\ requests' = [requests EXCEPT ![r] =
                [requests[r] EXCEPT !.pc = "verified", !.other = Mine(r),
                                    !.token = NoToken]]
  <2>1. /\ \A q \in Request : q # r => requests'[q] = requests[q]
        /\ requests'[r].op = requests[r].op /\ requests'[r].kind = requests[r].kind
        /\ requests'[r].other = Mine(r) /\ requests'[r].token = NoToken
    BY <1>2, <1>3 DEF RequestState, TypeOK
  <2> QED
    BY <1>1, <1>3, <2>1, MarkShape DEF Mine
<1>4. CASE requests' = [requests EXCEPT ![r].pc = AfterMark(requests[r].op)]
  BY <1>1, <1>4, FollowsGo DEF Go
<1>5. CASE Finish(r)
  BY <1>1, <1>5, FollowsFinish
<1> QED
  BY <1>3, <1>4, <1>5, MarkShape

LEMMA WriteFollows ==
    ASSUME TypeOK, NEW r \in Request, Write(r) \/ SetVerified(r)
    PROVE  Follows(r) /\ RowsKept /\ UNCHANGED guesses
<1>1. Follows(r)
  BY FollowsGo, FollowsFinish DEF Write, SetVerified
<1> QED
  BY <1>1 DEF Write, SetVerified, RowsKept, otherVars

LEMMA FollowsGuess ==
    ASSUME TypeOK, GuessInv, NEW r \in Request, Follows(r), UNCHANGED guesses,
           \A t \in Token : /\ tokens'[t].attempts = tokens[t].attempts
                            /\ tokens'[t].kind = "none" => tokens[t].kind = "none"
    PROVE  GuessInv'
BY GuessKept DEF Follows

LEMMA GuessNext == TypeOK /\ GuessInv /\ [Next]_vars => GuessInv'
<1> SUFFICES ASSUME TypeOK, GuessInv, [Next]_vars PROVE GuessInv'
  OBVIOUS
<1>1. ASSUME NEW r \in Request, RequestStep(r) PROVE GuessInv'
  <2>1. CASE \/ AskSecondFactor(r) \/ MailChange(r) \/ CheckActive(r) \/ SignIn(r)
             \/ TryCode(r) \/ BurnCode(r) \/ ReadCredential(r) \/ FinishAssertion(r)
             \/ FinishEnrollment(r) \/ Manage(r) \/ UpsertTotp(r) \/ ClearCodes(r)
             \/ DropTotp(r) \/ Abort(r)
    BY <2>1, QuietStep, FollowsGuess DEF RowsKept
  <2>2. CASE Ask(r)
    BY <2>2, AskFacts, GuessKept DEF Asking
  <2>3. CASE Issue(r)
    <3>1. PICK t \in Token :
             /\ tokens[t].kind = "none" /\ tokens'[t].attempts = 0
             /\ tokens'[t].kind # "none"
             /\ \A u \in Token : u # t => tokens'[u] = tokens[u]
      BY <2>3, IssueFacts
    <3>2. \A u \in Token : /\ tokens'[u].attempts = tokens[u].attempts
                           /\ tokens'[u].kind = "none" => tokens[u].kind = "none"
      BY <3>1 DEF GuessInv
    <3> QED
      BY <2>3, <3>2, IssueFacts, GuessKept
  <2>4. CASE Find(r)
    BY <2>4, FindGuess
  <2>5. CASE Mark(r)
    BY <2>5, MarkFacts, GuessKept DEF RowsKept, Follows
  <2>6. CASE Write(r) \/ SetVerified(r)
    BY <2>6, WriteFollows, FollowsGuess DEF RowsKept
  <2>7. CASE CountWrongCode(r)
    BY <2>7, CountGuess
  <2>8. CASE EnableTotp(r)
    <3>1. \A u \in Token : /\ tokens'[u].attempts = tokens[u].attempts
                           /\ tokens'[u].kind = "none" => tokens[u].kind = "none"
      BY <2>8, EnableFacts DEF GuessInv
    <3> QED
      BY <2>8, <3>1, EnableFacts, FollowsGuess
  <2> QED
    BY <1>1, <2>1, <2>2, <2>3, <2>4, <2>5, <2>6, <2>7, <2>8 DEF RequestStep
<1>2. CASE RemovePasskey \/ SetActive \/ EditAddress \/ UNCHANGED vars
  <2>1. UNCHANGED <<tokens, requests, guesses>>
    BY <1>2 DEF RemovePasskey, SetActive, EditAddress, vars, otherVars
  <2>2. \A t \in Token : Guessing(t)' = Guessing(t)
    BY <2>1 DEF Guessing
  <2> QED
    BY <2>1, <2>2 DEF GuessInv, GuessLimit
<1>3. ASSUME NEW t \in Token, Expire(t) PROVE GuessInv'
  <2>1. UNCHANGED <<requests, guesses>>
    BY <1>3 DEF Expire, otherVars
  <2>2. \A u \in Token : Guessing(u)' = Guessing(u)
    BY <2>1 DEF Guessing
  <2>3. \A u \in Token : tokens[u] \in TokenRow
    BY DEF TypeOK
  <2>4. \A u \in Token : /\ tokens'[u].kind = tokens[u].kind
                         /\ tokens'[u].attempts = tokens[u].attempts
    BY <1>3, <2>3 DEF Expire, TypeOK, TokenRow
  <2> QED
    BY <2>1, <2>2, <2>4 DEF GuessInv, GuessLimit
<1> QED
  BY <1>1, <1>2, <1>3 DEF Next

\* Wrong codes stay within the limit and the requests that overlap, for any
\* number of challenges and requests.
THEOREM WrongCodesLimited == Spec => []GuessLimit
<1>1. GuessInv => GuessLimit
  BY DEF GuessInv
<1> QED
  BY <1>1, InitType, NextType, GuessInit, GuessNext, PTL DEF Spec

-----------------------------------------------------------------------------
(* A verified address was proved. *)

LinkOf(me) == IF me.token = NoToken THEN me.other ELSE me.token

\* While the account is not verified its address does not change, so each
\* link that verifies it was sent there, or will be.
UnverifiedLinks ==
    ~user.edited /\ ~user.verified =>
        /\ \A t \in Token : tokens[t].kind = "verify" => tokens[t].mailedTo = user.email
        /\ \A r \in Request : requests[r].op = "resend" =>
                                 requests[r].address = user.email

LinkInv ==
    /\ VerifiedAddress
    /\ UnverifiedLinks
    /\ \A r \in Request :
         /\ requests[r].kind = "verify" => requests[r].op = "resend"
         /\ requests[r].op = "verify" => /\ LinkOf(requests[r]) \in Token
                                         /\ tokens[LinkOf(requests[r])].kind = "verify"

LEMMA LinkInit == Init => LinkInv
<1> SUFFICES ASSUME Init PROVE LinkInv
  OBVIOUS
<1>1. \A r \in Request : requests[r].op = "none" /\ requests[r].kind = "login"
  BY DEF Init, Idle
<1>2. \A t \in Token : tokens[t].kind = "none"
  BY DEF Init
<1>3. VerifiedAddress
  BY DEF VerifiedAddress, Init
<1> QED
  BY <1>1, <1>2, <1>3 DEF LinkInv, UnverifiedLinks

\* What the rows and the requests keep, whatever becomes of the account.
LEMMA RequestsLink ==
    ASSUME TypeOK, LinkInv, NEW r \in Request, Follows(r),
           \A t \in Token : tokens[t].kind # "none" => tokens'[t].kind = tokens[t].kind
    PROVE  /\ \A q \in Request :
                /\ requests'[q].kind = "verify" => requests'[q].op = "resend"
                /\ requests'[q].op = "verify" =>
                     /\ LinkOf(requests'[q]) \in Token
                     /\ tokens'[LinkOf(requests'[q])].kind = "verify"
           /\ \A q \in Request : requests'[q].op = "resend" =>
                /\ requests[q].op = "resend"
                /\ requests'[q].address = requests[q].address
<1>1. \A q \in Request :
         /\ requests'[q].kind = "verify" => requests'[q].op = "resend"
         /\ requests'[q].op = "verify" => /\ requests[q].op = "verify"
                                          /\ LinkOf(requests'[q]) = LinkOf(requests[q])
         /\ requests'[q].op = "resend" => /\ requests[q].op = "resend"
                                          /\ requests'[q].address = requests[q].address
  BY DEF Follows, LinkInv, LinkOf
<1> QED
  BY <1>1 DEF LinkInv

LEMMA LinkKept ==
    ASSUME TypeOK, LinkInv, NEW r \in Request, Follows(r), UNCHANGED user,
           \A t \in Token : /\ tokens[t].kind # "none" =>
                                 /\ tokens'[t].kind = tokens[t].kind
                                 /\ tokens'[t].mailedTo = tokens[t].mailedTo
                            /\ tokens'[t].kind = "verify" => tokens[t].kind = "verify"
    PROVE  LinkInv'
<1>1. \A q \in Request : requests'[q].op = "resend" =>
         /\ requests[q].op = "resend" /\ requests'[q].address = requests[q].address
  BY RequestsLink
<1>2. \A t \in Token : tokens'[t].kind = "verify" =>
         tokens[t].kind = "verify" /\ tokens'[t].mailedTo = tokens[t].mailedTo
  OBVIOUS
<1>3. VerifiedAddress' /\ UnverifiedLinks'
  BY <1>1, <1>2 DEF LinkInv, VerifiedAddress, UnverifiedLinks
<1> QED
  BY <1>3, RequestsLink DEF LinkInv

LEMMA AskLink == ASSUME TypeOK, LinkInv, NEW r \in Request, Ask(r) PROVE LinkInv'
<1>1. /\ \A q \in Request : q # r => requests'[q] = requests[q]
      /\ requests'[r].op # "verify"
      /\ requests'[r].kind = "verify" => requests'[r].op = "resend"
      /\ requests'[r].op = "resend" => requests'[r].address = user.email
      /\ UNCHANGED <<tokens, user>>
  BY AskFacts DEF Asking
<1>2. VerifiedAddress' /\ UnverifiedLinks'
  BY <1>1 DEF LinkInv, VerifiedAddress, UnverifiedLinks
<1> QED
  BY <1>1, <1>2 DEF LinkInv

LEMMA IssueLink == ASSUME TypeOK, LinkInv, NEW r \in Request, Issue(r) PROVE LinkInv'
<1>1. PICK t \in Token :
         /\ tokens[t].kind = "none"
         /\ tokens'[t].kind = requests[r].kind
         /\ tokens'[t].mailedTo = requests[r].address
         /\ \A u \in Token : u # t => tokens'[u] = tokens[u]
  BY IssueFacts
<1>2. /\ UNCHANGED user
      /\ \A q \in Request : q # r => requests'[q] = requests[q]
      /\ requests'[r].op \notin {"verify", "resend"}
      /\ requests'[r].kind # "verify"
  BY IssueFacts DEF LinkInv
<1>3. \A q \in Request : requests'[q].op = "verify" =>
         /\ LinkOf(requests'[q]) \in Token
         /\ tokens'[LinkOf(requests'[q])].kind = "verify"
  <2>1. \A q \in Request : requests'[q].op = "verify" =>
           /\ requests'[q] = requests[q] /\ LinkOf(requests[q]) \in Token
           /\ tokens[LinkOf(requests[q])].kind = "verify"
    BY <1>2 DEF LinkInv
  <2>2. \A u \in Token : tokens[u].kind = "verify" => tokens'[u] = tokens[u]
    BY <1>1
  <2> QED
    BY <2>1, <2>2
<1>4. tokens'[t].kind = "verify" /\ ~user.edited /\ ~user.verified =>
         tokens'[t].mailedTo = user.email
  BY <1>1 DEF LinkInv, UnverifiedLinks
<1>5. VerifiedAddress' /\ UnverifiedLinks'
  BY <1>1, <1>2, <1>4 DEF LinkInv, VerifiedAddress, UnverifiedLinks
<1> QED
  BY <1>2, <1>3, <1>5 DEF LinkInv

LEMMA FindLink == ASSUME TypeOK, LinkInv, NEW r \in Request, Find(r) PROVE LinkInv'
<1>1. PICK op \in Spending, t \in Token : Found(r, op, t)
  BY DEF Find, Found
<1>2. UNCHANGED <<tokens, user>>
  BY DEF Find, rowVars
<1>3. /\ \A q \in Request : q # r => requests'[q] = requests[q]
      /\ requests'[r].op = op /\ requests'[r].kind = "login"
      /\ tokens[t].kind = Spends(op)
      /\ \/ requests'[r].token = t
         \/ op = "verify" /\ requests'[r].token = NoToken /\ requests'[r].other = t
  BY <1>1, FindFacts
<1>4. op = "verify" => /\ LinkOf(requests'[r]) = t /\ tokens[t].kind = "verify"
  BY <1>3, TokenAssumption DEF LinkOf, Spends
<1>5. op # "resend"
  BY DEF Spending
<1>6. VerifiedAddress' /\ UnverifiedLinks'
  BY <1>2, <1>3, <1>5 DEF LinkInv, VerifiedAddress, UnverifiedLinks
<1> QED
  BY <1>2, <1>3, <1>4, <1>6 DEF LinkInv

LEMMA MarkLink == ASSUME TypeOK, LinkInv, NEW r \in Request, Mark(r) PROVE LinkInv'
<1>1. RowsKept /\ UNCHANGED user
  BY MarkFacts
<1>2. CASE Follows(r)
  BY <1>1, <1>2, LinkKept DEF RowsKept
<1>3. CASE ~Follows(r)
  <2>1. /\ requests[r].op = "verify" /\ requests'[r].op = "verify"
        /\ requests[r].token \in Token
        /\ requests'[r].other = requests[r].token
        /\ requests'[r].token = NoToken
        /\ requests'[r].kind = requests[r].kind
        /\ \A q \in Request : q # r => requests'[q] = requests[q]
    BY <1>3, MarkFacts
  <2>2. LinkOf(requests'[r]) = LinkOf(requests[r])
    BY <2>1, TokenAssumption DEF LinkOf
  <2>3. VerifiedAddress' /\ UnverifiedLinks'
    BY <1>1, <2>1 DEF LinkInv, VerifiedAddress, UnverifiedLinks, RowsKept
  <2> QED
    BY <1>1, <2>1, <2>2, <2>3 DEF LinkInv, RowsKept
<1> QED
  BY <1>2, <1>3

\* The link of a request was sent to the address of an account that is not
\* verified yet.
LEMMA SetVerifiedLink ==
    ASSUME TypeOK, LinkInv, NEW r \in Request, SetVerified(r) PROVE LinkInv'
<1> DEFINE link == LinkOf(requests[r])
<1>1. Follows(r) /\ RowsKept
  BY WriteFollows
<1>2. Shape(requests[r]) /\ requests[r].pc = "verified"
  BY DEF TypeOK, SetVerified, At
<1>3. requests[r].op = "verify"
  BY <1>2 DEF Shape, Steps
<1>4. link \in Token /\ tokens[link].kind = "verify"
  BY <1>3 DEF LinkInv
<1>5. user' = [Proved(user, tokens[link].mailedTo) EXCEPT !.verified = TRUE]
  BY DEF SetVerified, LinkOf
<1>6. tokens[link].mailedTo \in Address
  BY <1>4 DEF TypeOK, TokenRow
<1> HIDE DEF link
<1>7. /\ user'.verified = TRUE /\ user'.email = user.email /\ user'.edited = user.edited
      /\ user'.proved = user.proved \union {tokens[link].mailedTo}
  BY <1>5, <1>6, ProvedType DEF User
<1>8. ~user.edited => user.email \in user'.proved
  BY <1>4, <1>7 DEF LinkInv, VerifiedAddress, UnverifiedLinks, TypeOK, User
<1>9. VerifiedAddress' /\ UnverifiedLinks'
  BY <1>7, <1>8 DEF VerifiedAddress, UnverifiedLinks
<1> QED
  BY <1>1, <1>9, RequestsLink DEF LinkInv, RowsKept

LEMMA WriteLink == ASSUME TypeOK, LinkInv, NEW r \in Request, Write(r) PROVE LinkInv'
<1>1. Follows(r) /\ RowsKept
  BY WriteFollows
<1>2. CASE user' = user
  BY <1>1, <1>2, LinkKept DEF RowsKept
<1>3. CASE user' = [Proved(user, tokens[Mine(r)].mailedTo) EXCEPT
                       !.email = NewAddress(r), !.verified = TRUE]
  <2>1. Mine(r) \in Token
    BY MineType DEF Write, At
  <2>2. tokens[Mine(r)].mailedTo \in Address
    BY <2>1 DEF TypeOK, TokenRow
  <2>3. /\ user'.verified = TRUE /\ user'.email = tokens[Mine(r)].mailedTo
        /\ tokens[Mine(r)].mailedTo \in user'.proved
    BY <1>3, <2>2, ProvedType DEF User, NewAddress
  <2>4. VerifiedAddress' /\ UnverifiedLinks'
    BY <2>3 DEF VerifiedAddress, UnverifiedLinks
  <2> QED
    BY <1>1, <2>4, RequestsLink DEF LinkInv, RowsKept
<1> QED
  BY <1>2, <1>3 DEF Write

LEMMA CountLink ==
    ASSUME TypeOK, LinkInv, NEW r \in Request, CountWrongCode(r) PROVE LinkInv'
<1>1. Mine(r) \in Token
  BY MineType DEF CountWrongCode, At
<1>2. Follows(r) /\ UNCHANGED user
  BY FollowsFinish DEF CountWrongCode, rowVars
<1>3. \A t \in Token : /\ tokens'[t].kind = tokens[t].kind
                       /\ tokens'[t].mailedTo = tokens[t].mailedTo
  BY <1>1, CountedType DEF CountWrongCode, TypeOK
<1> QED
  BY <1>2, <1>3, LinkKept

LEMMA OtherLink ==
    ASSUME TypeOK, LinkInv,
           \/ RemovePasskey \/ SetActive \/ EditAddress \/ UNCHANGED vars
           \/ \E t \in Token : Expire(t)
    PROVE  LinkInv'
<1>1. CASE RemovePasskey \/ UNCHANGED vars
  <2>1. UNCHANGED <<tokens, requests, user>>
    BY <1>1 DEF RemovePasskey, vars
  <2> QED
    BY <2>1 DEF LinkInv, VerifiedAddress, UnverifiedLinks
<1>2. CASE SetActive \/ EditAddress
  <2>1. UNCHANGED <<tokens, requests>>
    BY <1>2 DEF SetActive, EditAddress
  <2>2. user \in User
    BY DEF TypeOK
  <2>3. \/ user'.edited
        \/ /\ user'.verified = user.verified /\ user'.email = user.email
           /\ user'.proved = user.proved /\ user'.edited = user.edited
    BY <1>2, <2>2 DEF SetActive, EditAddress, User
  <2>4. VerifiedAddress' /\ UnverifiedLinks'
    BY <2>1, <2>3 DEF LinkInv, VerifiedAddress, UnverifiedLinks
  <2> QED
    BY <2>1, <2>4 DEF LinkInv
<1>3. ASSUME NEW t \in Token, Expire(t) PROVE LinkInv'
  <2>1. UNCHANGED <<requests, user>>
    BY <1>3 DEF Expire, rowVars
  <2>2. \A u \in Token : tokens[u] \in TokenRow
    BY DEF TypeOK
  <2>3. \A u \in Token : /\ tokens'[u].kind = tokens[u].kind
                         /\ tokens'[u].mailedTo = tokens[u].mailedTo
    BY <1>3, <2>2 DEF Expire, TypeOK, TokenRow
  <2> QED
    BY <2>1, <2>3 DEF LinkInv, VerifiedAddress, UnverifiedLinks
<1> QED
  BY <1>1, <1>2, <1>3

LEMMA LinkNext == TypeOK /\ LinkInv /\ [Next]_vars => LinkInv'
<1> SUFFICES ASSUME TypeOK, LinkInv, [Next]_vars PROVE LinkInv'
  OBVIOUS
<1>1. ASSUME NEW r \in Request, RequestStep(r) PROVE LinkInv'
  <2>1. CASE \/ AskSecondFactor(r) \/ MailChange(r) \/ CheckActive(r) \/ SignIn(r)
             \/ TryCode(r) \/ BurnCode(r) \/ ReadCredential(r) \/ FinishAssertion(r)
             \/ FinishEnrollment(r) \/ Manage(r) \/ UpsertTotp(r) \/ ClearCodes(r)
             \/ DropTotp(r) \/ Abort(r)
    BY <2>1, QuietStep, LinkKept DEF RowsKept
  <2>2. CASE EnableTotp(r)
    BY <2>2, EnableFacts, LinkKept
  <2> QED
    BY <1>1, <2>1, <2>2, AskLink, IssueLink, FindLink, MarkLink, SetVerifiedLink,
       WriteLink, CountLink DEF RequestStep
<1> QED
  BY <1>1, OtherLink DEF Next

\* A verified address was proved by a mailed token, whatever requests overlap
\* with its change.
THEOREM AddressesProved == Spec => []VerifiedAddress
<1>1. LinkInv => VerifiedAddress
  BY DEF LinkInv
<1> QED
  BY <1>1, InitType, NextType, LinkInit, LinkNext, PTL DEF Spec
=============================================================================
