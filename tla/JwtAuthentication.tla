-------------------------- MODULE JwtAuthentication --------------------------
(***************************************************************************)
(* What an access token proves, and when: the verification of a bearer     *)
(* token in src/src/auth/supabaseJwtAuthentication.ts and the check of the *)
(* identity it yields in src/src/auth/authorization.ts.  Time is in        *)
(* seconds.                                                                *)
(*                                                                         *)
(* A token is its times and its holder; everything else that is read of    *)
(* its text is abstracted to "flaw", the one rule it breaks, or "none".    *)
(***************************************************************************)
EXTENDS Integers

CONSTANT Tolerance      \* clockToleranceSeconds

ASSUME ToleranceAssumption == Tolerance \in 0..300

\* The rules of the text of a token, by the function that reads them: its
\* segments and their base64url; header and claims, their types and values;
\* the signature by the key the header names.
TextFlaws == {"segments", "header", "claims", "signature"}

\* The claims validateClaims compares with the server's own: issuer and
\* audience, the role, an anonymous user, an unknown assurance level.
ClaimFlaws == {"iss", "aud", "role", "is_anonymous", "aal"}

Flaws == TextFlaws \cup ClaimFlaws \cup {"none"}

\* verify up to the key: the segments, parseHeader and parseClaims.
Readable(token) == token.flaw \notin TextFlaws \ {"signature"}

\* validateClaims; a token without nbf is one with nbf = iat.
ValidateClaims(token, asOf) ==
    /\ token.flaw \notin ClaimFlaws
    /\ token.exp > asOf - Tolerance
    /\ token.iat <= asOf + Tolerance
    /\ token.nbf <= asOf + Tolerance
    /\ token.iat < token.exp

\* SupabaseJwtAuthenticationPort.verify yields an identity: the token can be
\* read, the provider has a key for it and the signature is that key's.
\* Every failure, the provider's too, is caught and yields none.
Verified(token, keyFound, asOf) ==
    /\ Readable(token)
    /\ keyFound
    /\ token.flaw # "signature"
    /\ ValidateClaims(token, asOf)

\* A mutant: the identity may be as old as the tolerance lets the token be.
IdentityToleratedAt(token, asOf) ==
    /\ token.iat <= asOf + Tolerance
    /\ asOf < token.exp + Tolerance

\* validateVerifiedIdentity of the identity of a token: authenticatedAt and
\* expiresAt are its iat and exp, and this check has no tolerance.
IdentityValidAt(token, asOf) ==
    /\ token.iat <= asOf
    /\ asOf < token.exp
=============================================================================
