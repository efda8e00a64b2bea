---------------------------- MODULE ResponseGlue ----------------------------
(***************************************************************************)
(* The response side of the HTTP glue, src/src/glue/response.rs, with the  *)
(* template hand-off from src/src/glue/request.rs and the stream provider *)
(* the guest writes a streamed body to.                                    *)
(*                                                                         *)
(* The guest stages one Response: body, file, status, headers, cookies and *)
(* at most one stream receiver.  When it completes, into_hyper_response    *)
(* consumes the Response and picks the body source: a file if one was set, *)
(* else the stream receiver if streaming was enabled, else the bytes with  *)
(* a Content-Length.  The stream provider (streaming.rs, not under src/)  *)
(* is modelled from spec 6: writes enqueue chunks on a channel, closing    *)
(* ends the body, and the HTTP collaborator drains the channel once it     *)
(* holds the receiver.  Chunks are counted, not stored: the channel is     *)
(* FIFO, so the chunks delivered are always a prefix of those written.     *)
(***************************************************************************)
EXTENDS Naturals

CONSTANTS
    Names,          \* header names and cookie keys, already normalised
    PoweredBy,      \* the header name X-Powered-By
    SetCookie,      \* the header name Set-Cookie
    Texts,          \* header and cookie values, file paths, byte strings
    NonUtf8,        \* texts that are not valid UTF-8
    Empty,          \* the empty body
    NullPtr,        \* a null data pointer passed to set_body
    Statuses,       \* u16 values the guest may pass to set_status
    None,           \* Option::None of the file, an unset header or cookie
    MaxChunks,      \* bound: chunks the guest writes to the provider
    MaxRendered,    \* bound: rendered strings the guest holds at once
    GuestMixesSources  \* may the guest set both a file and a stream?

ASSUME /\ {Empty, NullPtr, None} \cap Texts = {}
       /\ {PoweredBy, SetCookie} \subseteq Names
       /\ NonUtf8 \subseteq Texts
       /\ Statuses \subseteq 0 .. 65535 /\ MaxChunks \in Nat
       /\ MaxRendered \in Nat \ {0}
       /\ GuestMixesSources \in BOOLEAN

Rendered == "rendered template"

VARIABLES
    resp,      \* the staged Response (response.rs:16-24)
    owned,     \* rendered CStrings leaked to the guest by into_raw
    provider,  \* "none", "open" or "closed": the guest's StreamProvider
    wrote,     \* chunks the guest has written to the provider
    reply,     \* the hyper reply, None until into_hyper_response
    delivered, \* chunks the HTTP collaborator has sent to the client
    panicked   \* the reactor panicked

vars == <<resp, owned, provider, wrote, reply, delivered, panicked>>

\* Mutant: the lower bound of the status range is dropped.
ValidStatusNoFloor(s) == s <= 599

\* hyper::StatusCode::try_from accepts 100 ..= 599.
ValidStatus(s) == s \in 100 .. 599

Staging == reply = None /\ ~panicked

-----------------------------------------------------------------------------
\* Response::new().
Init ==
    /\ resp = [body |-> Empty, file |-> None, status |-> 200,
               headers |-> [n \in Names |-> None],
               cookies |-> [n \in Names |-> None], streamRx |-> FALSE]
    /\ owned = 0
    /\ provider = "none"
    /\ wrote = 0
    /\ reply = None
    /\ delivered = 0
    /\ panicked = FALSE

SetResp(f, v) ==
    /\ Staging
    /\ resp' = [resp EXCEPT ![f] = v]
    /\ UNCHANGED <<owned, provider, wrote, reply, delivered, panicked>>

\* The guest breaks the glue's contract and the reactor thread panics.
GuestFault == panicked' = TRUE

\* `CStr::from_ptr(v).to_str().unwrap()` in a setter's glue: the string is
\* passed on if it is UTF-8; otherwise the unwrap panics (a void setter
\* has no -1 to return, so the glue treats it as a guest error).
WithStr(v, Set) ==
    /\ Staging
    /\ \/ v \notin NonUtf8 /\ Set
       \/ /\ v \in NonUtf8
          /\ GuestFault
          /\ UNCHANGED <<resp, owned, provider, wrote, reply, delivered>>

\* ice_glue_response_add_header: headers.set_raw replaces any earlier
\* value of the name.
add_header(k, v) == WithStr(v, SetResp("headers", [resp.headers EXCEPT ![k] = v]))

\* ice_glue_response_set_cookie: cookies.insert.
set_cookie(k, v) == WithStr(v, SetResp("cookies", [resp.cookies EXCEPT ![k] = v]))

\* ice_glue_response_set_body: a null pointer or a zero length is the
\* empty body; otherwise the bytes are copied.
set_body(d) == SetResp("body", IF d = NullPtr THEN Empty ELSE d)

\* ice_glue_response_set_file.
set_file(p) ==
    /\ GuestMixesSources \/ ~resp.streamRx
    /\ WithStr(p, SetResp("file", p))

\* set_status.
set_status(s) == SetResp("status", s)

\* ice_glue_request_render_template_to_owned: CString::into_raw hands the
\* rendered string to the guest, which now owns it.  A missing template
\* gives null and changes nothing.
render_template_to_owned ==
    /\ Staging
    /\ owned < MaxRendered
    /\ owned' = owned + 1
    /\ UNCHANGED <<resp, provider, wrote, reply, delivered, panicked>>

\* ice_glue_response_consume_rendered_template: CString::from_raw takes
\* back whatever pointer it is given, and the string becomes the body.
\* The guest passes a string it owns (mine) or one it already handed back
\* (a double free: a guest error).  Freeing memory no live CString owns
\* is undefined; the model takes the allocator's abort.
consume_rendered_template(mine) ==
    /\ Staging
    /\ mine => owned > 0
    /\ \/ /\ mine
          /\ owned' = owned - 1
          /\ resp' = [resp EXCEPT !.body = Rendered]
          /\ UNCHANGED panicked
       \/ /\ ~mine
          /\ GuestFault
          /\ UNCHANGED <<resp, owned>>
    /\ UNCHANGED <<provider, wrote, reply, delivered>>

\* Response::stream: a second call panics (a guest error, spec 6); the
\* first stores the receiver and hands the provider to the guest.
stream ==
    /\ Staging
    /\ GuestMixesSources \/ resp.file = None
    /\ \/ /\ resp.streamRx
          /\ GuestFault
          /\ UNCHANGED <<resp, provider>>
       \/ /\ ~resp.streamRx
          /\ resp' = [resp EXCEPT !.streamRx = TRUE]
          /\ provider' = "open"
          /\ UNCHANGED panicked
    /\ UNCHANGED <<owned, wrote, reply, delivered>>

\* The guest writes a chunk through its provider (spec 6).
ProviderWrite ==
    /\ ~panicked
    /\ provider = "open"
    /\ wrote < MaxChunks
    /\ wrote' = wrote + 1
    /\ UNCHANGED <<resp, owned, provider, reply, delivered, panicked>>

\* The guest closes its provider: the body ends after the chunks written.
ProviderClose ==
    /\ ~panicked
    /\ provider = "open"
    /\ provider' = "closed"
    /\ UNCHANGED <<resp, owned, wrote, reply, delivered, panicked>>

\* Mutant: the bytes are preferred to the stream receiver.
BodyOfBytesFirst(r) ==
    IF r.file # None THEN [kind |-> "file", data |-> r.file]
    ELSE IF r.body # Empty \/ ~r.streamRx THEN [kind |-> "bytes", data |-> r.body]
    ELSE [kind |-> "stream", data |-> None]

\* The body source into_hyper_response chooses: file, then stream, then bytes.
BodyOf(r) ==
    IF r.file # None THEN [kind |-> "file", data |-> r.file]
    ELSE IF r.streamRx THEN [kind |-> "stream", data |-> None]
    ELSE [kind |-> "bytes", data |-> r.body]

\* The headers sent: X-Powered-By is set to "Ice Core" and Set-Cookie is
\* replaced by one "k=v" line per cookie (response.rs:44-52), whatever
\* the guest put under those names.
FinalHeaders(r) ==
    [r.headers EXCEPT ![PoweredBy] = "Ice Core",
                      ![SetCookie] = {<<k, r.cookies[k]>> :
                                        k \in {n \in Names : r.cookies[n] # None}}]

\* The guest completes the request and the supervisor calls
\* into_hyper_response: invalid status codes become 500; a stream receiver
\* that is not chosen is dropped with the Response.
into_hyper_response ==
    /\ Staging
    /\ reply' = [status  |-> IF ValidStatus(resp.status)
                             THEN resp.status ELSE 500,
                 headers |-> FinalHeaders(resp),
                 body    |-> BodyOf(resp)]
    /\ UNCHANGED <<resp, owned, provider, wrote, delivered, panicked>>

\* The HTTP collaborator sends the next chunk of a streamed body.
Deliver ==
    /\ reply # None
    /\ reply.body.kind = "stream"
    /\ delivered < wrote
    /\ delivered' = delivered + 1
    /\ UNCHANGED <<resp, owned, provider, wrote, reply, panicked>>

Next ==
    \/ \E k \in Names, v \in Texts : add_header(k, v) \/ set_cookie(k, v)
    \/ \E d \in Texts \cup {Empty, NullPtr} : set_body(d)
    \/ \E p \in Texts : set_file(p)
    \/ \E s \in Statuses : set_status(s)
    \/ render_template_to_owned
    \/ \E mine \in BOOLEAN : consume_rendered_template(mine)
    \/ stream
    \/ ProviderWrite
    \/ ProviderClose
    \/ into_hyper_response
    \/ Deliver

Spec == Init /\ [][Next]_vars

-----------------------------------------------------------------------------
TypeOK ==
    /\ resp.body \in Texts \cup {Empty, Rendered}
    /\ resp.file \in Texts \cup {None}
    /\ resp.status \in Statuses \cup {200}
    /\ owned \in 0 .. MaxRendered
    /\ provider \in {"none", "open", "closed"}
    /\ wrote \in 0 .. MaxChunks /\ delivered \in 0 .. wrote
    /\ reply = None \/ reply.status \in 100 .. 599
=============================================================================
