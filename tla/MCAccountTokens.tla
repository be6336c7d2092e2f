--------------------------- MODULE MCAccountTokens ---------------------------
EXTENDS AccountTokens, TLC

\* What the clients of one behaviour ask for: the rows an operation touches
\* are touched by the others of its set, so that every race has its set.
SecondFactor == {"login", "otp", "setup", "confirm", "disable"}
Sessions == {"login", "otp", "signin", "setActive"}
Links == {"resend", "verify", "requestChange", "confirmChange", "editAddress"}
Resets == {"resend", "verify", "forgot", "reset", "signin"}
Passkeys == {"passkeyBegin", "passkeyFinish", "enrollBegin", "enrollFinish",
             "removePasskey"}

AllTraffic == {SecondFactor, Sessions, Links, Resets, Passkeys}

Symmetry == Permutations(Token) \union Permutations(Request)
==============================================================================
