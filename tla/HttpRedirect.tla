------------------------------ MODULE HttpRedirect ------------------------------
(***************************************************************************)
(* The redirect follower over the HTTP client (http_redirect.c): the       *)
(* asynchronous client rc, which owns one inner client per hop, and the    *)
(* blocking loop do_sync_request().                                        *)
(*                                                                         *)
(* A URL is the record is_cross_origin() compares; a header is its name.   *)
(* The inner client is what HttpClient promises: its start returns NULL,   *)
(* or a handle, and a start may complete before it returns (with an error  *)
(* it could not defer).  on_done() may cancel or free rc.                  *)
(***************************************************************************)
EXTENDS Naturals, Sequences

CONSTANTS Urls,      \* records [https, unix, port, host]
          Methods, Statuses,
          MaxRedirects

VARIABLES rc,      \* the KlHttpRedirectClient
          inner,   \* rc->inner: "none", "running", "done", "cancelled"
          frames,  \* open calls, innermost first: "start1", "start", "done"
          sync,    \* the blocking request's locals
          sent     \* what the last request carried, and how many were sent

vars == <<rc, inner, frames, sync, sent>>

None == "none"
NoUrl == [https |-> FALSE, unix |-> FALSE, port |-> 0, host |-> "none"]
BadUrl == [NoUrl EXCEPT !.host = "bad"]     \* a Location that does not resolve
Credentials == {"Authorization", "Cookie", "Proxy-Authorization"}
BodyHeaders == {"Content-Type", "Content-Length", "Transfer-Encoding"}
Headers == Credentials \cup BodyHeaders \cup {"Host", "Accept"}

NoRc == [st |-> "none", orig |-> NoUrl, url |-> NoUrl, method |-> None, body |-> FALSE,
         hops |-> 0, starting |-> FALSE, pending |-> FALSE, err |-> None, told |-> 0]
NoSync == [st |-> "none", orig |-> NoUrl, url |-> NoUrl, method |-> None, body |-> FALSE,
           i |-> 0, err |-> None, resp |-> "none"]
NoSent == [n |-> 0, url |-> NoUrl, orig |-> NoUrl, method |-> None, body |-> FALSE, hdrs |-> {}]

Init == rc = NoRc /\ inner = "none" /\ frames = <<>> /\ sync = NoSync /\ sent = NoSent

-----------------------------------------------------------------------------
(* The rules of one hop. *)

IsRedirect(status) == status \in {301, 302, 303, 307, 308}

MethodChangesToGet(status, method) ==
    \/ status = 303 /\ method \notin {"GET", "HEAD"}
    \/ status \in {301, 302} /\ method \in {"POST", "PUT", "PATCH"}

\* An AF_UNIX URL has no port and no host: its socket path, here in host, is its origin.
IsCrossOrigin(a, b) ==
    \/ a.https # b.https
    \/ a.unix # b.unix
    \/ a.unix /\ a.host # b.host
    \/ ~a.unix /\ (a.port # b.port \/ a.host # b.host)

ShouldDropHeader(h, bodyDropped, cross) ==
    \/ h = "Host"
    \/ cross /\ h \in Credentials
    \/ bodyDropped /\ h \in BodyHeaders

\* The bug: the hop before, not the original request, decides what is another origin.
MutFiltered(r, hops) ==
    {h \in Headers : ~ShouldDropHeader(h, ~r.body, hops > 0 /\ sent.n > 0 /\ IsCrossOrigin(sent.url, r.url))}

Filtered(r, hops) ==
    {h \in Headers : ~ShouldDropHeader(h, ~r.body, hops > 0 /\ IsCrossOrigin(r.orig, r.url))}

Send(r, hops) ==
    sent' = [n |-> hops + 1, url |-> r.url, orig |-> r.orig, method |-> r.method, body |-> r.body,
             hdrs |-> Filtered(r, hops)]

Redirected(r, status, u) ==
    IF MethodChangesToGet(status, r.method)
    THEN [r EXCEPT !.url = u, !.method = "GET", !.body = FALSE]
    ELSE [r EXCEPT !.url = u]

-----------------------------------------------------------------------------
(* The asynchronous client. *)

Top == IF frames = <<>> THEN "loop" ELSE Head(frames)
UserRuns == Top \in {"loop", "done"} /\ rc.st = "live"

\* start_next_request() up to the inner client's start.
StartNextRequest(r, below, frame) ==
    /\ rc' = [r EXCEPT !.starting = TRUE, !.pending = FALSE]
    /\ Send(r, r.hops)
    /\ frames' = <<frame>> \o below

\* alloc_redirect_client(): a client of its own copies of the request.
AllocRedirectClient(u, m, b) ==
    [NoRc EXCEPT !.st = "live", !.orig = u, !.url = u, !.method = m, !.body = b]

\* kl_http_redirect_start(), _pooled()
Start(u, m, b) ==
    /\ rc.st = "none" /\ sync.st = "none"
    /\ StartNextRequest(AllocRedirectClient(u, m, b), <<>>, "start1")
    /\ UNCHANGED <<inner, sync>>

\* rc->on_done(): the request is over with error err.
OnDone(r, err, below) ==
    /\ rc' = [r EXCEPT !.err = err, !.told = r.told + 1]
    /\ frames' = <<"done">> \o below

\* What the inner client ended with: an error, or a response and its Location.
Outcomes == {[status |-> 0, loc |-> NoUrl]} \cup
            {[status |-> s, loc |-> l] : s \in Statuses, l \in {NoUrl, BadUrl} \cup Urls}
Follows(o) == IsRedirect(o.status) /\ rc.hops < MaxRedirects /\ o.loc \in Urls

\* How a request that follows no further redirect ends.
FinalError(o) ==
    CASE o.status = 0 -> "inner"
      [] o.status # 0 /\ ~IsRedirect(o.status) -> None
      [] IsRedirect(o.status) /\ rc.hops >= MaxRedirects -> "loop"
      [] IsRedirect(o.status) /\ rc.hops < MaxRedirects /\ o.loc = NoUrl -> None
      [] OTHER -> "url"

\* internal_on_done() on a recorded client: report, or follow to the next hop.
InternalOnDone(o, below) ==
    \/ /\ ~Follows(o)
       /\ OnDone(rc, FinalError(o), below)
       /\ inner' = "done" /\ UNCHANGED sent
    \/ /\ Follows(o)                       \* on_redirect() refuses the target
       /\ OnDone(rc, "refused", below)
       /\ inner' = "done" /\ UNCHANGED sent
    \/ /\ Follows(o)
       /\ StartNextRequest([Redirected(rc, o.status, o.loc) EXCEPT !.hops = rc.hops + 1],
                           below, "start")
       /\ inner' = "none"

\* The inner client ends, from the event loop.
InnerCompletes(o) ==
    /\ Top = "loop" /\ rc.st = "live" /\ inner = "running"
    /\ InternalOnDone(o, <<>>)
    /\ UNCHANGED sync

\* The bug: a completion inside the start is reported at once.
MutInnerDoneInside ==
    /\ Top \in {"start1", "start"} /\ rc.starting /\ ~rc.pending
    /\ OnDone(rc, "inner", frames)
    /\ UNCHANGED <<inner, sent, sync>>

\* The inner client ends inside its own start: internal_on_done() holds it.
InnerDoneInside ==
    /\ Top \in {"start1", "start"} /\ rc.starting /\ ~rc.pending
    /\ rc' = [rc EXCEPT !.pending = TRUE]
    /\ UNCHANGED <<inner, frames, sent, sync>>

\* kl_http_redirect_free(): the client, its request and the inner client are gone.
Freed == rc' = [NoRc EXCEPT !.st = "freed"] /\ inner' = "none"

\* The inner client's start returns NULL: the first hop fails the start without a callback,
\* a later one is reported.
StartReturnsNull ==
    /\ Top \in {"start1", "start"} /\ ~rc.pending
    /\ \/ Top = "start1" /\ Freed /\ frames' = Tail(frames)
       \/ Top = "start" /\ OnDone([rc EXCEPT !.starting = FALSE], "io", Tail(frames)) /\ UNCHANGED inner
    /\ UNCHANGED <<sent, sync>>

\* It returns a handle: recorded, and a held completion is now handled.
StartReturns ==
    /\ Top \in {"start1", "start"}
    /\ \/ /\ ~rc.pending
          /\ rc' = [rc EXCEPT !.starting = FALSE] /\ inner' = "running"
          /\ frames' = Tail(frames)
       \/ /\ rc.pending /\ Top = "start1"      \* the caller has no handle yet
          /\ Freed /\ frames' = Tail(frames)
       \/ /\ rc.pending /\ Top = "start"
          /\ OnDone([rc EXCEPT !.starting = FALSE, !.pending = FALSE], "inner", Tail(frames))
          /\ inner' = "done"
    /\ UNCHANGED <<sent, sync>>

OnDoneReturns == Top = "done" /\ frames' = Tail(frames) /\ UNCHANGED <<rc, inner, sync, sent>>

\* kl_http_redirect_cancel()
Cancel ==
    /\ UserRuns
    /\ inner' = IF inner = "running" THEN "cancelled" ELSE inner
    /\ rc' = IF rc.err = None THEN [rc EXCEPT !.err = "io"] ELSE rc
    /\ UNCHANGED <<frames, sync, sent>>

Free == UserRuns /\ Freed /\ UNCHANGED <<frames, sync, sent>>

-----------------------------------------------------------------------------
(* The blocking loop. *)

\* do_sync_request() up to its first hop; a refused argument leaves resp zeroed with its error.
SyncRequest(u, m, b) ==
    /\ rc.st = "none" /\ sync.st = "none"
    /\ LET r == [NoSync EXCEPT !.st = "hop", !.orig = u, !.url = u, !.method = m, !.body = b] IN
       \/ sync' = r /\ Send(r, 0)
       \/ sync' = [NoSync EXCEPT !.st = "ended", !.err = "arg"] /\ UNCHANGED sent
    /\ UNCHANGED <<rc, inner, frames>>

SyncEnd(err, resp) == sync' = [sync EXCEPT !.st = "ended", !.err = err, !.resp = resp] /\ UNCHANGED sent

\* One turn of the loop: the request returned o.  Past the last turn the loop's error stands.
SyncHop(o) ==
    /\ sync.st = "hop"
    /\ \/ o.status = 0 /\ SyncEnd("inner", "none")
       \/ o.status # 0 /\ (~IsRedirect(o.status) \/ o.loc = NoUrl) /\ SyncEnd(None, "held")
       \/ IsRedirect(o.status) /\ o.loc = BadUrl /\ SyncEnd("url", "none")
       \/ IsRedirect(o.status) /\ o.loc \in Urls /\ SyncEnd("refused", "none")
       \/ /\ IsRedirect(o.status) /\ o.loc \in Urls
          /\ LET r == [Redirected(sync, o.status, o.loc) EXCEPT !.i = sync.i + 1] IN
             \/ r.i <= MaxRedirects /\ sync' = r /\ Send(r, r.i)
             \/ r.i > MaxRedirects /\ SyncEnd("loop", "none")
    /\ UNCHANGED <<rc, inner, frames>>

\* The caller takes the result, and asks again.
SyncReturns == sync.st = "ended" /\ sync' = NoSync /\ sent' = NoSent /\ UNCHANGED <<rc, inner, frames>>

Forget == rc.st = "freed" /\ frames = <<>> /\ rc' = NoRc /\ sent' = NoSent /\ UNCHANGED <<inner, frames, sync>>

Request(u, m, b) == Start(u, m, b) \/ SyncRequest(u, m, b)
Inner == InnerDoneInside \/ StartReturnsNull \/ StartReturns \/ OnDoneReturns

Next ==
    \/ \E u \in Urls, m \in Methods, b \in BOOLEAN : Request(u, m, b)
    \/ \E o \in Outcomes : InnerCompletes(o) \/ SyncHop(o)
    \/ Inner \/ Cancel \/ Free \/ SyncReturns \/ Forget

\* The inner client ends every request it accepted (HttpClient's RequestEnds), a call returns.
Fairness == /\ WF_vars(Inner) /\ WF_vars(\E o \in Outcomes : InnerCompletes(o))
              /\ WF_vars(\E o \in Outcomes : SyncHop(o))
Spec == Init /\ [][Next]_vars /\ Fairness

-----------------------------------------------------------------------------
(* Properties. *)

\* What one hop may carry, whatever hops came before it: no credential of the original request
\* reaches another origin, body headers go with a body and only with one, and no more than
\* max_redirects hops follow the first request.
HopCarries ==
    sent.n > 0 =>
        /\ IsCrossOrigin(sent.orig, sent.url) => sent.hdrs \cap Credentials = {}
        /\ (sent.hdrs \cap BodyHeaders # {}) <=> sent.body
        /\ sent.n <= MaxRedirects + 1

\* A start_next_request() that will still write rc is never open over a freed client, and on_done()
\* runs at most once.
StartOutlivesDone ==
    /\ \A i \in 1..Len(frames) : frames[i] \in {"start1", "start"} => rc.st = "live"
    /\ rc.told <= 1
    /\ rc.starting => Top \in {"start1", "start"}

\* A live client that was not cancelled is told of its end.
Running == rc.st = "live" /\ inner = "running"
Ended == rc.told = 1 \/ rc.st # "live" \/ inner = "cancelled"

RedirectEnds == Running ~> Ended
=============================================================================
