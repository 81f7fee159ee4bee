----------------------------- MODULE ContentType -----------------------------
(***************************************************************************)
(* ContentTypeCleaner (bin/src/content_type.rs): the HTTP middleware that  *)
(* reads and restores the request body, and rewrites a Content-Type whose  *)
(* media type is application/sdp followed by parameters to exactly         *)
(* "application/sdp" before calling the inner endpoint.  Logging is left   *)
(* out.                                                                    *)
(*                                                                         *)
(* A header value is a sequence of tokens: "sdp" is the text               *)
(* application/sdp, "SDP" the same text in another letter case, "other"    *)
(* any other visible text, ";" and " " themselves, and "obs" a byte that   *)
(* HTTP allows but HeaderValue::to_str rejects (not visible ASCII).        *)
(***************************************************************************)
EXTENDS Naturals, Sequences, SequencesExt

CONSTANTS
    MaxHeaderLen,   \* bound on the number of tokens of a header value
    Bodies,         \* request bodies (model values)
    NoHeader        \* the request has no Content-Type (model value)

ASSUME MaxHeaderLen \in Nat

VARIABLES
    req,    \* the request as the middleware receives it: [ct, body]
    fwd,    \* the request as the inner endpoint receives it, or NoRequest
    st      \* "idle", "received", "forwarded" or "failed"

vars == <<req, fwd, st>>

Tokens == {"sdp", "SDP", "other", ";", " ", "obs"}
HeaderValues == BoundedSeq(Tokens, MaxHeaderLen)
Requests == [ct : HeaderValues \cup {NoHeader}, body : Bodies]
NoRequest == [ct |-> NoHeader, body |-> "none"]

TypeOK ==
    /\ req \in Requests \cup {NoRequest}
    /\ fwd \in Requests \cup {NoRequest}
    /\ st \in {"idle", "received", "forwarded", "failed"}

-----------------------------------------------------------------------------
(* The rewrite, as the code computes it                                     *)

\* content_type.to_str().unwrap_or(""): Err, hence "", on a non-visible byte.
ToStr(v) == IF Contains(v, "obs") THEN <<>> ELSE v

\* Mutant of FirstField: split(';').last() in place of next().
LastField(s) ==
    LET i == SelectLastInSeq(s, LAMBDA t : t = ";")
    IN  IF i = 0 THEN s ELSE SubSeq(s, i + 1, Len(s))

\* .split(';').next().unwrap_or(""): the text before the first ';'.
FirstField(s) ==
    LET i == SelectInSeq(s, LAMBDA t : t = ";")
    IN  IF i = 0 THEN s ELSE SubSeq(s, 1, i - 1)

RECURSIVE TrimStart(_)
TrimStart(s) == IF s # <<>> /\ Head(s) = " " THEN TrimStart(Tail(s)) ELSE s

\* Mutant of Trim: trim_start() in place of trim().
TrimFrontOnly(s) == TrimStart(s)

RECURSIVE TrimEnd(_)
TrimEnd(s) == IF s # <<>> /\ Last(s) = " " THEN TrimEnd(Front(s)) ELSE s

\* .trim(): leading and trailing whitespace removed.
Trim(s) == TrimEnd(TrimStart(s))

\* Mutant of Rewrite: headers.append in place of insert, so the original
\* value stays next to the new one.
RewriteAppend(h) ==
    IF h # NoHeader /\ Trim(FirstField(ToStr(h))) = <<"sdp">>
    THEN h \o <<"sdp">> ELSE h

\* The Content-Type the inner endpoint sees: "application/sdp" when the
\* cleaned type equals it, the value as sent otherwise.
Rewrite(h) ==
    IF h # NoHeader /\ Trim(FirstField(ToStr(h))) = <<"sdp">>
    THEN <<"sdp">> ELSE h

-----------------------------------------------------------------------------
(* The middleware                                                           *)

Init ==
    /\ req = NoRequest
    /\ fwd = NoRequest
    /\ st = "idle"

\* A request reaches the middleware.
Receive ==
    /\ st = "idle"
    /\ \E r \in Requests : req' = r
    /\ st' = "received"
    /\ UNCHANGED fwd

\* ContentTypeCleaner::call: take_body().into_bytes().await? returns the
\* error when the body cannot be read; otherwise the body is set back, the
\* Content-Type rewritten, and the inner endpoint called.
Call ==
    /\ st = "received"
    /\ \/ /\ st' = "failed"
          /\ UNCHANGED fwd
       \/ /\ st' = "forwarded"
          /\ fwd' = [ct |-> Rewrite(req.ct), body |-> req.body]
    /\ UNCHANGED req

Next == Receive \/ Call

Spec == Init /\ [][Next]_vars

-----------------------------------------------------------------------------
(* Properties                                                               *)

\* Reference definition (HTTP media-type grammar): the value declares the
\* media type application/sdp, spelled as the code compares it, optionally
\* surrounded by whitespace and followed by ";" and parameters, and holds
\* only bytes HeaderValue::to_str accepts.
DeclaresSdp(v) ==
    /\ v # NoHeader
    /\ ~Contains(v, "obs")
    /\ \E a \in 1..Len(v) :
         /\ v[a] = "sdp"
         /\ \A i \in 1..a - 1 : v[i] = " "
         /\ \E b \in a..Len(v) :
              /\ \A i \in a + 1..b : v[i] = " "
              /\ b = Len(v) \/ v[b + 1] = ";"

\* A forwarded request carries the body the client sent and a Content-Type
\* that is exactly "application/sdp" when the client declared that media
\* type with parameters or padding, and untouched otherwise.
ForwardedFaithfully ==
    st = "forwarded" =>
        /\ fwd.body = req.body
        /\ fwd.ct = IF DeclaresSdp(req.ct) THEN <<"sdp">> ELSE req.ct

=============================================================================
