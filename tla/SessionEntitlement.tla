------------------------- MODULE SessionEntitlement -------------------------
(***************************************************************************)
(* Which sessions may stand: AuthSessions with a record of how each login  *)
(* was judged.                                                             *)
(*                                                                         *)
(* The transaction that opens a session does not read the user row again,  *)
(* so that a login may open a session of an account that was blocked, or   *)
(* given another password, since it was judged.  The variables below say   *)
(* for which sessions that is so; they constrain no step of the program.   *)
(***************************************************************************)
EXTENDS AuthSessions

VARIABLES
    judged,     \* the password the account had when each login was judged
    overtaken,  \* the logins whose account was superseded since they were judged
    under,      \* for each session, what its login was judged under
    late        \* the sessions that overtaken logins opened

history == <<judged, overtaken, under, late>>

\* The step replaces the password of u, or blocks u.
Superseded(u) == password'[u] # password[u] \/ (active[u] /\ ~active'[u])

\* The login that opens s in this step, if any does.
Opening(s) == {r \in Requests : /\ At(r, "login")
                                /\ request'[r] = Idle
                                /\ ~Exists(s)
                                /\ Exists(s)'}

Judge ==
    /\ judged' = [r \in Requests |->
           CASE ~At(r, "login")' -> None
             [] At(r, "login")   -> judged[r]
             [] OTHER            -> password[request'[r].user]]
    /\ overtaken' = {r \in Requests :
           At(r, "login")' /\ (r \in overtaken \/ Superseded(request'[r].user))}

\* A closed session needs no account any more.
Attribute ==
    /\ under' = [s \in Sessions |->
           CASE ~Open(s)'         -> None
             [] Opening(s) = {}   -> under[s]
             [] OTHER             -> judged[CHOOSE r \in Opening(s) : TRUE]]
    /\ late' = {s \in Sessions :
           Open(s)' /\ (s \in late \/ Opening(s) \cap overtaken # {})}

HInit ==
    /\ Init
    /\ judged = [r \in Requests |-> None]
    /\ overtaken = {}
    /\ under = [s \in Sessions |-> None]
    /\ late = {}

HNext == Next /\ Judge /\ Attribute

HSpec == HInit /\ [][HNext]_<<vars, history>>

-----------------------------------------------------------------------------
(* Properties *)

\* Whatever logins, password changes, blocks and unblocks overlap, a session
\* that is open stands for an account that is not blocked and has the password
\* under which the login was judged, unless the login was overtaken.
OpenSessionsAreEntitled ==
    \A s \in Sessions \ late : Open(s) =>
        /\ active[session[s].owner]
        /\ under[s] = password[session[s].owner]
=============================================================================
