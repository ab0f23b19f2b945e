---------------------------- MODULE ClientSession ----------------------------
(***************************************************************************)
(* The session file of a cluster (common/auth/auth_module.py               *)
(* SessionTokenAuth, client/cli/auth.py): every client process that        *)
(* connects reads it, refreshes the token that is about to expire and      *)
(* writes the file again; a login writes it too.  No lock guards it.       *)
(*                                                                         *)
(* The identity provider (Grant, Refuse, Aging) is external.  Tokens are   *)
(* numbers: grant n is access token n and refresh token n.                 *)
(***************************************************************************)
EXTENDS Naturals, FiniteSets

CONSTANTS
  Clients,      \* processes that use the file
  MaxGrants,    \* bound on the grants of the provider
  Rotates,      \* a refresh token is good for one refresh
  Confidential  \* the provider demands the client's secret

ASSUME SessionBounds ==
  /\ MaxGrants \in Nat
  /\ Rotates \in BOOLEAN /\ Confidential \in BOOLEAN

VARIABLES
  file,      \* the session file: NoFile, Garbled (truncated or mixed) or a session
  clean,     \* per process: nobody wrote since it truncated the file
  auth,      \* per process: idle, refresh, truncate, write, ready
  session,   \* per process: the session in hand
  token,     \* per process: the access token of its requests, 0 for none
  granted,   \* grants so far
  old,       \* access tokens that expired or will within a minute
  accepted,  \* refresh tokens that the provider accepts
  renewed,   \* grants that answered a refresh
  spoiled    \* a session was lost: its answer, its writer, its save or the file

fileVars == <<file, clean>>
authVars == <<auth, session, token>>
providerVars == <<granted, old, accepted>>
sessionVars == <<fileVars, authVars, providerVars, renewed, spoiled>>

Session(n, r, s) == [access |-> n, refresh |-> r, secret |-> s]
NoFile == Session(0, 0, FALSE)
Garbled == Session(0, 0, TRUE)
Sessions == [access : 1 .. granted, refresh : 0 .. granted, secret : BOOLEAN]

SessionTypeOK ==
  /\ file \in Sessions \union {NoFile, Garbled}
  /\ clean \in [Clients -> BOOLEAN]
  /\ auth \in [Clients -> {"idle", "refresh", "truncate", "write", "ready"}]
  /\ session \in [Clients -> Sessions \union {NoFile}]
  /\ token \in [Clients -> 0 .. granted]
  /\ granted \in 0 .. MaxGrants /\ old \subseteq 1 .. granted /\ accepted \subseteq 1 .. granted
  /\ renewed \subseteq 1 .. granted /\ spoiled \in BOOLEAN

SessionInit ==
  /\ file = NoFile /\ clean = [c \in Clients |-> TRUE]
  /\ auth = [c \in Clients |-> "idle"] /\ session = [c \in Clients |-> NoFile]
  /\ token = [c \in Clients |-> 0]
  /\ granted = 0 /\ old = {} /\ accepted = {}
  /\ renewed = {} /\ spoiled = FALSE

-----------------------------------------------------------------------------
(* A process in SessionTokenAuth.__init__, or in a login.                  *)

Becomes(c, s, t, a) ==
  /\ session' = [session EXCEPT ![c] = s]
  /\ token' = [token EXCEPT ![c] = t]
  /\ auth' = [auth EXCEPT ![c] = a]

\* _load_session_data; an unreadable file is no session.  An aurora_cookie
\* session is one without a refresh token.
Load(c) ==
  /\ auth[c] = "idle"
  /\ \/ /\ file \in {NoFile, Garbled} /\ Becomes(c, NoFile, 0, "ready")
     \/ /\ file \notin {NoFile, Garbled}
        /\ IF file.access \in old /\ file.refresh # 0
           THEN Becomes(c, file, 0, "refresh")
           ELSE Becomes(c, NoFile, file.access, "ready")
  /\ UNCHANGED <<fileVars, providerVars, renewed, spoiled>>

\* The provider grants tokens; with rotation the refresh token r is used up.
Grant(r) ==
  /\ granted < MaxGrants /\ granted' = granted + 1
  /\ accepted' = (accepted \ (IF Rotates THEN {r} ELSE {})) \union {granted'}
  /\ UNCHANGED old
Accepts(s) == s.refresh \in accepted /\ (Confidential => s.secret)

\* Mutant: the old refresh token is kept whatever the provider returned.
RefreshedKeeps(s, n) == Session(n, s.refresh, FALSE)

\* What _refresh_session_data makes of an answer: the session loses its secret.
Refreshed(s, n) == Session(n, IF Rotates THEN n ELSE s.refresh, FALSE)

Refresh(c) ==
  /\ auth[c] = "refresh"
  /\ \/ /\ Accepts(session[c]) /\ Grant(session[c].refresh)
        /\ renewed' = renewed \union {granted'}
        /\ \/ /\ Becomes(c, Refreshed(session[c], granted'), 0, "truncate")
              /\ UNCHANGED spoiled
           \/ /\ Becomes(c, NoFile, session[c].access, "ready")   \* the answer is lost
              /\ spoiled' = TRUE
     \/ \* refused, or the request is lost: the old token is used
        /\ Becomes(c, NoFile, session[c].access, "ready")
        /\ UNCHANGED <<providerVars, renewed, spoiled>>
  /\ UNCHANGED fileVars

\* _save_session_data, save_session: the open truncates, the write comes later.
\* A file that cannot be opened is a warning.
Truncate(c) ==
  /\ auth[c] = "truncate"
  /\ \/ /\ file' = Garbled /\ clean' = [clean EXCEPT ![c] = TRUE]
        /\ Becomes(c, session[c], 0, "write")
        /\ UNCHANGED spoiled
     \/ /\ Becomes(c, NoFile, session[c].access, "ready")
        /\ spoiled' = TRUE
        /\ UNCHANGED fileVars
  /\ UNCHANGED <<providerVars, renewed>>

\* What was written since the truncation may be longer, and its end remains.
Write(c) ==
  /\ auth[c] = "write"
  /\ \/ file' = session[c] /\ UNCHANGED spoiled
     \/ ~clean[c] /\ file' = Garbled /\ spoiled' = TRUE
  /\ clean' = [d \in Clients |-> FALSE]
  /\ Becomes(c, NoFile, session[c].access, "ready")
  /\ UNCHANGED <<providerVars, renewed>>

\* A login, by a browser or a device: with a refresh token and the secret of the
\* cluster, or a cookie of the scheduler.
LogIn(c) ==
  /\ auth[c] = "idle" /\ Grant(0)
  /\ \E r \in {0, granted'} :
       Becomes(c, Session(granted', r, Confidential /\ r # 0), 0, "truncate")
  /\ UNCHANGED <<fileVars, renewed, spoiled>>

AuthStep(c) == Load(c) \/ Refresh(c) \/ Truncate(c) \/ Write(c)

-----------------------------------------------------------------------------

\* The process has done what it was for.
Leave(c) ==
  /\ auth[c] = "ready" /\ Becomes(c, NoFile, 0, "idle")
  /\ UNCHANGED <<fileVars, providerVars, renewed, spoiled>>

Kill(c) ==
  /\ auth[c] \in {"refresh", "truncate", "write"}
  /\ Becomes(c, NoFile, 0, "idle")
  /\ spoiled' = (spoiled \/ auth[c] \in {"truncate", "write"})
  /\ UNCHANGED <<fileVars, providerVars, renewed>>

Aging(n) ==
  /\ n \in (1 .. granted) \ old /\ old' = old \union {n}
  /\ UNCHANGED <<fileVars, authVars, granted, accepted, renewed, spoiled>>

\* Whatever other processes do with the file while a client works.
OtherProcess(c) == AuthStep(c) \/ LogIn(c) \/ Leave(c) \/ Kill(c)

-----------------------------------------------------------------------------
(* Properties *)

Saving == {c \in Clients : auth[c] \in {"truncate", "write"}}

\* However many processes refresh and log in at once, the file that is left when
\* nobody is saving can be refreshed: its refresh token is one that the provider
\* still accepts, and comes with the secret of a confidential client, unless an
\* answer, a writer or a save was lost.  A session that was itself refreshed has
\* its token, but its secret is gone (auth_module.py:96-105): the provider of a
\* confidential client refuses it the next time.
SessionKept ==
  (Saving = {} /\ ~spoiled) =>
     /\ file # Garbled
     /\ file.refresh # 0 =>
          /\ file.refresh \in accepted
          /\ file.access \notin renewed => Accepts(file)
=============================================================================
