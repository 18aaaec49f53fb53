------------------------------ MODULE Identity ------------------------------
(***************************************************************************)
(* Whose sandbox a request is for.  The proxy reads it from headers        *)
(* (broker/src/proxy.rs), the terminal relay from the query, the headers   *)
(* and the path (terminal.rs), the desktop relays from the query and the   *)
(* headers (desktop.rs), and the rate limiter has keys of its own          *)
(* (rate_limit.rs).                                                        *)
(*                                                                         *)
(* A text is Absent, Blank (present and empty) or one of Name.             *)
(***************************************************************************)
CONSTANTS
    Name,           \* the texts a user or a chat may be called
    Absent, Blank,
    DefaultProfile  \* BROKER_DEFAULT_PROFILE

Profiles == {"persistent", "ephemeral"}

ASSUME IdentityAssumption ==
    /\ DefaultProfile \in Profiles
    /\ Absent # Blank /\ {Absent, Blank} \cap Name = {}

VARIABLE
    asked       \* two requests

Text == Name \cup {Absent, Blank}
Stated(t) == t \notin {Absent, Blank}
Rejected == [user |-> Blank, session |-> Blank, profile |-> DefaultProfile]

(* The first of a chain of or_else that is there, be it empty. *)
OrElse(s, t) == IF s = Absent THEN t ELSE s
OrStated(s, t) == IF Stated(s) THEN s ELSE t

(* profile_from_header, and the same match on the query. *)
ProfileOf(t) == IF t \in Profiles THEN t ELSE DefaultProfile

ForwardIdentity(r) ==
    IF ~ Stated(r.header.user) THEN Rejected
    ELSE [user |-> r.header.user,
          session |-> OrStated(r.header.session, r.header.user),
          profile |-> ProfileOf(r.header.persistence)]

(* header_str takes an empty header for none. *)
TerminalIdentity(r) ==
    LET user == OrElse(r.query.user, OrStated(r.header.user, Blank))
        session == OrElse(r.query.session,
                     OrElse(r.query.chat, OrStated(r.header.session, r.path)))
    IN  IF ~ Stated(user) \/ ~ Stated(session) THEN Rejected
        ELSE [user |-> user, session |-> session,
              profile |-> ProfileOf(OrElse(r.query.persistence, r.header.persistence))]

(* Mutant: a chat that is not stated is not replaced. *)
DesktopIdentityBare(r) ==
    LET user == OrElse(r.query.user, OrStated(r.header.user, Blank)) IN
    IF ~ Stated(user) THEN Rejected
    ELSE [user |-> user,
          session |-> OrElse(r.query.session,
                        OrElse(r.query.chat, OrStated(r.header.session, Blank))),
          profile |-> DefaultProfile]

(* The desktop of a caller without a chat is the user's own, and its       *)
(* profile always the default.                                             *)
DesktopIdentity(r) ==
    LET user == OrElse(r.query.user, OrStated(r.header.user, Blank)) IN
    IF ~ Stated(user) THEN Rejected
    ELSE [user |-> user,
          session |-> OrStated(OrElse(r.query.session,
                                 OrElse(r.query.chat, r.header.session)), user),
          profile |-> DefaultProfile]

(* XUserIdKey and UserSessionKey: the bucket of the chat. *)
UserIdKey(r) == OrStated(r.header.user, "anonymous")

UserSessionKey(r) == <<UserIdKey(r), OrStated(r.header.session, UserIdKey(r))>>

-----------------------------------------------------------------------------
(* Requests by header, and the same with a query instead. *)
Persistence == Profiles \cup {Absent, "other"}
Silent == [user |-> Absent, session |-> Absent, chat |-> Absent, persistence |-> Absent]
Headers == [user : Text, session : Text, persistence : Persistence]
ByHeader == {[header |-> h, query |-> Silent, path |-> p] : h \in Headers, p \in Name}
ByQuery ==
    {[header |-> [user |-> Absent, session |-> Absent, persistence |-> Absent],
      query |-> [user |-> h.user, session |-> Absent, chat |-> h.session,
                 persistence |-> h.persistence],
      path |-> p] : h \in Headers, p \in Name}

IdentityInit == asked = << >>

Call ==
    /\ asked = << >>
    /\ \E r \in ByHeader, q \in ByHeader \cup ByQuery : asked' = <<r, q>>

Return == asked # << >> /\ asked' = << >>

IdentityNext == Call \/ Return

(* One chat, one sandbox (desktop.rs:144-150): a caller that names its     *)
(* user gets the same desktop as files, if it asks for the default         *)
(* profile; one that names its chat too gets the same terminal, however it *)
(* names them.  A caller without a chat is served as code and tests have it*)
(* (desktop_ws.rs:143-159): its own desktop, which is where its files are. *)
SameSandbox ==
    asked # << >> =>
        LET r == asked[1]
            q == asked[2]
            alike == /\ OrElse(q.query.user, q.header.user) = r.header.user
                     /\ OrElse(q.query.chat, q.header.session) = r.header.session
                     /\ OrElse(q.query.persistence, q.header.persistence)
                          = r.header.persistence
        IN  alike /\ Stated(r.header.user) =>
                /\ ProfileOf(r.header.persistence) = DefaultProfile
                     => DesktopIdentity(q) = ForwardIdentity(r)
                /\ Stated(r.header.session)
                     => TerminalIdentity(q) = ForwardIdentity(r)

(* What desktop.rs:9-13 says instead: a desktop's identity is that of a    *)
(* terminal whose path names no chat, with the same 400 for a missing one. *)
DesktopAsTerminal ==
    asked # << >> =>
        DesktopIdentity(asked[2]) = TerminalIdentity([asked[2] EXCEPT !.path = Blank])

(* The budgets are per chat (rate_limit.rs:64-67): two proxied requests    *)
(* draw on one bucket exactly if they are for one chat of one user.        *)
BudgetPerChat ==
    asked # << >> =>
        LET f == ForwardIdentity(asked[1])
            g == ForwardIdentity(asked[2])
        IN  f # Rejected /\ g # Rejected =>
                (UserSessionKey(asked[1]) = UserSessionKey(asked[2])
                   <=> f.user = g.user /\ f.session = g.session)
=============================================================================
