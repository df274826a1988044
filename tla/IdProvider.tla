----------------------------- MODULE IdProvider -----------------------------
(***************************************************************************)
(* OpenNAS as an identity provider for other applications (oidc/provider,  *)
(* oidc/store, db/oidc-clients): an account agrees to an application, the  *)
(* application exchanges the code it is sent for a token, and asks with it *)
(* who signed in.  Codes and tokens are kept in memory.                    *)
(*                                                                         *)
(* Every handler is one step.  What can go wrong lies between them: codes  *)
(* that are presented again, by another application, or with the wrong     *)
(* proof, and applications and accounts that go meanwhile.                 *)
(***************************************************************************)
EXTENDS Naturals

CONSTANTS
    Users, Clients,
    MaxCodes         \* bound: codes ever issued

VARIABLES
    users,      \* accounts with a row
    clients,    \* registered applications: secrets are not told apart
    codes,      \* the code store
    tokens,     \* the token store; a token has the number of its code
    issued,     \* codes issued so far
    presented,  \* history: codes a registered application has presented
    honoured    \* history: codes that became tokens

idpVars == <<users, clients, codes, tokens, issued, presented, honoured>>

Ids == 1 .. MaxCodes
Code == [user : Users, client : Clients, pkce : BOOLEAN, fresh : BOOLEAN]
Nothing == [none |-> TRUE]

TypeOK ==
    /\ users \subseteq Users /\ clients \subseteq Clients
    /\ codes \in [Ids -> {Nothing} \cup Code]
    /\ tokens \in [Ids -> {Nothing} \cup [user : Users, client : Clients]]
    /\ issued \in 0 .. MaxCodes
    /\ presented \subseteq 1 .. issued /\ honoured \subseteq presented

-----------------------------------------------------------------------------
CreateClient(k) ==
    /\ k \notin clients
    /\ clients' = clients \cup {k}
    /\ UNCHANGED <<users, codes, tokens, issued, presented, honoured>>

\* The row goes; codes and tokens stay.
DeleteClient(k) ==
    /\ k \in clients
    /\ clients' = clients \ {k}
    /\ UNCHANGED <<users, codes, tokens, issued, presented, honoured>>

DeleteUser(u) ==
    /\ u \in users
    /\ users' = users \ {u}
    /\ UNCHANGED <<clients, codes, tokens, issued, presented, honoured>>

\* POST /oidc/authorize: an account with a session says yes.
Allow(u, k, pkce) ==
    /\ u \in users /\ k \in clients /\ issued < MaxCodes
    /\ issued' = issued + 1
    /\ codes' = [codes EXCEPT ![issued + 1] =
                    [user |-> u, client |-> k, pkce |-> pkce, fresh |-> TRUE]]
    /\ UNCHANGED <<users, clients, tokens, presented, honoured>>

\* What is left of the code store when c was presented: whatever comes of it.
ConsumeAfterwards(c, good) ==      \* mutant: only a good exchange spends the code
    IF good THEN [codes EXCEPT ![c] = Nothing] ELSE codes
ConsumeCode(c, good) == [codes EXCEPT ![c] = Nothing]

\* POST /oidc/token. proof: a verifier that fits, for a code with a challenge, or
\* else the client's secret.
Token(c, k, proof) ==
    LET code == codes[c]
        good == /\ code.fresh /\ code.client = k
                /\ proof = IF code.pkce THEN "verifier" ELSE "secret"
                /\ code.user \in users
    IN  /\ k \in clients /\ code # Nothing
        /\ codes' = ConsumeCode(c, good)
        /\ presented' = presented \cup {c}
        /\ IF good
           THEN /\ tokens' = [tokens EXCEPT ![c] = [user |-> code.user, client |-> k]]
                /\ honoured' = honoured \cup {c}
           ELSE UNCHANGED <<tokens, honoured>>
        /\ UNCHANGED <<users, clients, issued>>

\* A minute is over; and pruneOidc, or a look at an expired token.
Expire(c) ==
    /\ codes[c] # Nothing
    /\ codes' = [codes EXCEPT ![c] = IF @.fresh THEN [@ EXCEPT !.fresh = FALSE] ELSE Nothing]
    /\ UNCHANGED <<users, clients, tokens, issued, presented, honoured>>

ExpireToken(c) ==
    /\ tokens[c] # Nothing
    /\ tokens' = [tokens EXCEPT ![c] = Nothing]
    /\ UNCHANGED <<users, clients, codes, issued, presented, honoured>>

Restart ==
    /\ codes' = [c \in Ids |-> Nothing] /\ tokens' = [c \in Ids |-> Nothing]
    /\ UNCHANGED <<users, clients, issued, presented, honoured>>

-----------------------------------------------------------------------------
Init ==
    /\ users = Users /\ clients = {}
    /\ codes = [c \in Ids |-> Nothing] /\ tokens = [c \in Ids |-> Nothing]
    /\ issued = 0 /\ presented = {} /\ honoured = {}

Next ==
    \/ Restart
    \/ \E u \in Users : DeleteUser(u)
    \/ \E k \in Clients : CreateClient(k) \/ DeleteClient(k)
    \/ \E u \in Users, k \in Clients, pkce \in BOOLEAN : Allow(u, k, pkce)
    \/ \E c \in Ids :
          \/ Expire(c) \/ ExpireToken(c)
          \/ \E k \in Clients, proof \in {"verifier", "secret", "wrong"} : Token(c, k, proof)

Spec == Init /\ [][Next]_idpVars

-----------------------------------------------------------------------------
\* oidc/store.ts:4 calls a code "single use": once it was presented, rightly or
\* wrongly, by its own application or another, nothing makes it good again, so
\* that a proof is never tried twice. (The variables keep their types.)
CodesAreSingleUse ==
    [][TypeOK' /\ \A c \in Ids : c \in honoured' \ honoured => c \notin presented]_idpVars

=============================================================================
