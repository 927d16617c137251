------------------------------ MODULE EmailLinks ------------------------------
(***************************************************************************)
(* Links mailed to one user: password reset (password_reset_tokens) and    *)
(* email verification (email_verification_tokens), the password and the    *)
(* verified flag they change, and the sign-ins that rewrite an old-format  *)
(* password hash.                                                          *)
(*                                                                         *)
(* A call is a handler; its transactions commit in one step, but what a    *)
(* transaction of another call has not committed is not seen.  A token is  *)
(* looked up by hash.  Requests for an unknown address end at once.  The   *)
(* mail itself is in EmailDelivery, the lock a reset clears in             *)
(* PasswordLockout.                                                        *)
(***************************************************************************)
EXTENDS FiniteSets

CONSTANTS Calls,      \* slots for calls in flight
          Links,      \* links that may be mailed
          Passwords,  \* values a password may have
          None        \* no value

VARIABLES hash,     \* users.password_hash: the password, and whether it is bcrypt
          verified, \* users.email_verified_at is set
          link,     \* link[l]: kind, used_at, and whether expires_at has passed
          call,     \* call[c]: where a handler is, and its locals
          dead      \* history: links of which a use or a replacement has been answered

linkVars == <<hash, verified, link, call, dead>>

-------------------------------------------------------------------------------
Kinds == {"reset", "verify"}

Unminted == [kind |-> None, used |-> FALSE, expired |-> FALSE]

Idle == [pc |-> "idle", kind |-> None, link |-> None, pw |-> None, burn |-> {}, old |-> {},
         late |-> FALSE]

TypeOK ==
    /\ hash \in [pw : Passwords, bcrypt : BOOLEAN]
    /\ verified \in BOOLEAN
    /\ link \in [Links -> [kind : Kinds \cup {None}, used : BOOLEAN, expired : BOOLEAN]]
    /\ call \in [Calls -> [pc : {"idle", "burn", "mint", "use", "rehash"},
                           kind : Kinds \cup {None}, link : Links \cup {None},
                           pw : Passwords \cup {None}, burn : SUBSET Links,
                           old : SUBSET Links, late : BOOLEAN]]
    /\ dead \subseteq Links

\* register mints the first verification link; an imported account has a bcrypt hash.
Init ==
    /\ \E p \in Passwords, b \in BOOLEAN : hash = [pw |-> p, bcrypt |-> b]
    /\ verified = FALSE
    /\ \E first \in Links : link = [l \in Links |-> IF l = first THEN [Unminted EXCEPT !.kind = "verify"]
                                                     ELSE Unminted]
    /\ call = [c \in Calls |-> Idle]
    /\ dead = {}

Live(kind) == {l \in Links : link[l].kind = kind /\ ~link[l].used}

Burn(ls) == [l \in Links |-> IF l \in ls THEN [link[l] EXCEPT !.used = TRUE] ELSE link[l]]

Answer(c) == call' = [call EXCEPT ![c] = Idle]

-------------------------------------------------------------------------------
(* forgotPassword and resendVerification *)

\* A verified address is sent no further link.
AskLink(c, kind) ==
    /\ call[c].pc = "idle" /\ (kind = "verify" => ~verified)
    /\ call' = [call EXCEPT ![c] = [Idle EXCEPT !.pc = "burn", !.kind = kind, !.old = Live(kind)]]
    /\ UNCHANGED <<hash, verified, link, dead>>

\* First statement of the transaction: used_at of the outstanding links, as
\* far as they are committed, to be visible when the transaction commits.
BurnOutstanding(c) ==
    /\ call[c].pc = "burn"
    /\ call' = [call EXCEPT ![c].pc = "mint", ![c].burn = Live(call[c].kind)]
    /\ UNCHANGED <<hash, verified, link, dead>>

\* Fault: outstanding links are left alone.
MintLink_OthersKept(c) ==
    /\ call[c].pc = "mint"
    /\ \E l \in Links : /\ link[l].kind = None
                        /\ link' = [link EXCEPT ![l].kind = call[c].kind]
    /\ dead' = dead \cup call[c].old
    /\ Answer(c)
    /\ UNCHANGED <<hash, verified>>

\* Second statement and commit: the new link, which is then mailed.
MintLink(c) ==
    /\ call[c].pc = "mint"
    /\ \E l \in Links : /\ link[l].kind = None
                        /\ link' = [Burn(call[c].burn) EXCEPT ![l].kind = call[c].kind]
    /\ dead' = dead \cup call[c].old
    /\ Answer(c)
    /\ UNCHANGED <<hash, verified>>

-------------------------------------------------------------------------------
(* resetPassword and verifyEmail *)

Usable(l) == link[l].kind # None /\ ~link[l].used /\ ~link[l].expired

\* The lookup.  A link that is not usable is refused.  A reset then asks the
\* breach service and hashes the new password.
OpenLink(c, l, p) ==
    /\ call[c].pc = "idle" /\ Usable(l)
    /\ call' = [call EXCEPT ![c] = [Idle EXCEPT !.pc = "use", !.kind = link[l].kind, !.link = l,
                                               !.pw = IF link[l].kind = "reset" THEN p ELSE None,
                                               !.late = l \in dead]]
    /\ UNCHANGED <<hash, verified, link, dead>>

\* The transaction: the password, and every link that is unused.  It does not
\* look at this link again.
SetPassword(c) ==
    /\ call[c].pc = "use" /\ call[c].kind = "reset"
    /\ hash' = [pw |-> call[c].pw, bcrypt |-> FALSE]
    /\ link' = Burn(Live("reset"))
    /\ dead' = dead \cup {call[c].link}
    /\ Answer(c)
    /\ UNCHANGED verified

MarkVerified(c) ==
    /\ call[c].pc = "use" /\ call[c].kind = "verify"
    /\ verified' = TRUE
    /\ link' = Burn(Live("verify"))
    /\ dead' = dead \cup {call[c].link}
    /\ Answer(c)
    /\ UNCHANGED hash

-------------------------------------------------------------------------------
(* authenticateInternal: the migration of bcrypt hashes *)

\* The typed password matches the hash that was read; a hash in the old format
\* is computed anew (comparePasswordWithRehash).
ReadOldHash(c) ==
    /\ call[c].pc = "idle" /\ hash.bcrypt
    /\ call' = [call EXCEPT ![c] = [Idle EXCEPT !.pc = "rehash", !.pw = hash.pw]]
    /\ UNCHANGED <<hash, verified, link, dead>>

\* The new hash is of the password typed, whatever the row holds by now.
Rehash(c) ==
    /\ call[c].pc = "rehash"
    /\ hash' = [pw |-> call[c].pw, bcrypt |-> FALSE]
    /\ Answer(c)
    /\ UNCHANGED <<verified, link, dead>>

Expire(l) ==
    /\ link[l].kind # None /\ ~link[l].expired
    /\ link' = [link EXCEPT ![l].expired = TRUE]
    /\ UNCHANGED <<hash, verified, call, dead>>

\* A handler stops; a transaction that has not committed is rolled back.
Abort(c) ==
    /\ call[c].pc # "idle"
    /\ Answer(c)
    /\ UNCHANGED <<hash, verified, link, dead>>

Next ==
    \/ \E c \in Calls : \/ \E kind \in Kinds : AskLink(c, kind)
                        \/ BurnOutstanding(c) \/ MintLink(c)
                        \/ \E l \in Links, p \in Passwords : OpenLink(c, l, p)
                        \/ SetPassword(c) \/ MarkVerified(c)
                        \/ ReadOldHash(c) \/ Rehash(c) \/ Abort(c)
    \/ \E l \in Links : Expire(l)

Spec == Init /\ [][Next]_linkVars

-------------------------------------------------------------------------------
(* Properties *)

\* A link is dead once its use has been answered or a replacement for it has
\* been sent: no call that begins later gets past the lookup with it.  (Two
\* calls that overlap may: the lookup and the burning are apart.)
DeadLinkRefused == \A c \in Calls : ~call[c].late

===============================================================================
