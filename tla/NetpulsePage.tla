------------------------------ MODULE NetpulsePage ------------------------------
(***************************************************************************)
(* Netpulse (netpulse/js): measurements a page can make of its own network. *)
(* Buttons start jobs that answer later, in any order or never; what they   *)
(* find goes to the session store, which keeps a capped event log and some  *)
(* values, writes all of it to localStorage and tells its listeners.        *)
(*                                                                          *)
(* An event is its type, a probe run its kind and its counts, an answer is  *)
(* good or bad.  Times, rates and words are left out.                       *)
(***************************************************************************)
EXTENDS Integers, Sequences, SequencesExt, FiniteSets

CONSTANTS
  Null,
  Attempts,     \* the samples of one probe run
  HistoryMax,   \* HISTORY_MAX of probes.js
  MaxEvents,    \* MAX_EVENTS of store.js
  LogMax,       \* the events renderLog shows
  KeptMax,      \* the events the monitor shows
  RowsMax,      \* the traffic rows a stream keeps
  BufferMax,    \* the resource entries the browser keeps for a snapshot
  Uses          \* the sessions looked at: [offers, most] gives the jobs and the groups of
                \* other inputs there are, how many inputs are made at most

VARIABLES
  data,     \* the session: its events, its probe runs, two endpoints
  stored,   \* netpulse.v1 in localStorage
  jobs,     \* what has been asked and not answered
  page,     \* buttons, panels and fields
  traffic,  \* resource entries, the rows shown, the stream
  inputs    \* what the user and the network did, and may do

pulseVars == <<data, stored, jobs, page, traffic, inputs>>

Probes == {"latency", "download", "upload"}
Kinds == Probes \cup {"dns", "compare", "identity", "webrtc"}
(* Lookup and comparison answer in one panel.                               *)
PanelOf(kind) == IF kind = "compare" THEN "dns" ELSE kind
Panels == Kinds \ {"compare"}

----------------------------------------------------------------------------
(* The store.                                                               *)
NoData == [events |-> <<>>, hist |-> <<>>, dnsEp |-> Null, idEp |-> Null]
LastN(s, n) == SubSeq(s, IF Len(s) > n THEN Len(s) - n + 1 ELSE 1, Len(s))
Load(text) == IF text = Null THEN NoData ELSE text
Logged(d, type) == [d EXCEPT !.events = LastN(Append(@, type), MaxEvents)]
SaveRun(d, run) == [d EXCEPT !.hist = LastN(Append(@, run), HistoryMax)]

SumOver(hist, field) == FoldSeq(LAMBDA run, n : n + run[field], 0, hist)
(* The share of attempts that failed; the monitor counts them once more.    *)
Loss(hist) == [attempts |-> SumOver(hist, "n"), failed |-> SumOver(hist, "failed")]
LogView(d) == Reverse(LastN(d.events, LogMax))
SessionSummary(hist) == [runs |-> Len(hist), loss |-> Loss(hist)]
(* Every type the page logs, its self-test apart, is one the monitor keeps. *)
MonitorEvents(events) == Reverse(LastN(events, KeptMax))
MonitorView(d) == [sum |-> SessionSummary(d.hist), log |-> MonitorEvents(d.events)]
ReportView(d) == [runs |-> d.hist, events |-> d.events]
QualityView(d) == [rows |-> Reverse(d.hist), loss |-> Loss(d.hist)]

(* What an event or a clear tells: the log, the monitor, the reports, in    *)
(* the order they subscribed.                                               *)
Notified(p, d) ==
  [p EXCEPT !.log = LogView(d), !.monitor = MonitorView(d), !.report = ReportView(d)]
RenderHistory(p, d) == [p EXCEPT !.quality = QualityView(d)]

(* logEvent on top of what the handler has set before it.                   *)
Log(d, p, type) ==
  /\ data' = Logged(d, type) /\ stored' = data'
  /\ page' = Notified(p, data')

(* boot: fields and panels from what was stored.  The saved resolver        *)
(* endpoint is restored from the other saved value.                         *)
Boot(text, online) ==
  LET d == Load(text)
      now == Logged(d, "session-start")
      idle == [panel |-> "none", status |-> "idle"]
      p == [disabled |-> {}, result |-> [x \in Panels |-> idle],
            log |-> <<>>, monitor |-> <<>>, report |-> <<>>, quality |-> <<>>,
            dnsField |-> IF d.dnsEp # Null
                         THEN IF d.idEp = Null THEN "undefined" ELSE d.idEp
                         ELSE Null,
            cache |-> {}, online |-> online,
            banner |-> [hidden |-> online, says |-> IF online THEN "" ELSE "offline",
                        timers |-> 0]]
  IN  [data |-> now, page |-> Notified(RenderHistory(p, d), now)]

Init ==
  \E online \in BOOLEAN, use \in Uses :
    /\ data = Boot(Null, online).data /\ page = Boot(Null, online).page
    /\ stored = data /\ jobs = {} /\ inputs = [made |-> 0, offers |-> use.offers, most |-> use.most]
    /\ traffic = [entries |-> 0, rows |-> <<>>, observing |-> FALSE, queue |-> <<>>]

----------------------------------------------------------------------------
(* Starting a job.  No click reaches a disabled button; probes, lookups and *)
(* checks do not start offline.                                             *)
Act == inputs.made < inputs.most /\ inputs' = [inputs EXCEPT !.made = @ + 1]
Offers == inputs.offers
Tell(p, panel, what, status) ==
  [p EXCEPT !.result[panel] = [panel |-> what, status |-> status]]
Refuse(panel, why) ==
  /\ page' = Tell(page, panel, why, "error") /\ UNCHANGED <<data, stored, jobs>>
(* A slip to notice: the button stays on.                                   *)
WithBusyNot(p, button) == p
(* withBusy: the button is off until done().                                *)
WithBusy(p, button) == [p EXCEPT !.disabled = @ \cup {button}]
Running(p, panel) == [p EXCEPT !.result[panel].status = "running"]
Job(kind, ep) == [kind |-> kind, ep |-> ep, n |-> inputs.made, left |-> Attempts, failed |-> 0]
Start(kind, button, ep) ==
  /\ jobs' = jobs \cup {Job(kind, ep)}
  /\ page' = Running(WithBusy(page, button), PanelOf(kind))

(* An upload needs an endpoint of its own.                                  *)
StartProbe(kind, given) ==
  /\ Act /\ kind \notin page.disabled /\ (given \/ kind = "upload")
  /\ IF ~page.online THEN Refuse(kind, "offline")
     ELSE IF ~given THEN Refuse(kind, "no endpoint")
     ELSE Start(kind, kind, Null) /\ UNCHANGED <<data, stored>>
  /\ UNCHANGED traffic
(* Both lookups keep the endpoint of the field as the one to restore.       *)
StartDns(kind, valid) ==
  /\ Act /\ kind \in {"dns", "compare"} /\ kind \notin page.disabled
  /\ IF ~page.online THEN Refuse("dns", "offline")
     ELSE /\ IF valid THEN Start(kind, kind, page.dnsField)
             ELSE page' = Tell(page, "dns", "no hostname", "error") /\ UNCHANGED jobs
          /\ data' = [data EXCEPT !.dnsEp = page.dnsField] /\ stored' = data'
  /\ UNCHANGED traffic
TypeDnsEndpoint(ep) ==
  /\ Act /\ page' = [page EXCEPT !.dnsField = ep]
  /\ UNCHANGED <<data, stored, jobs, traffic>>

(* An answer of the identity check: shown, and logged.                      *)
Identified(d, p, ok, button) ==
  Log(d, Tell([p EXCEPT !.disabled = @ \ {button}], "identity",
              IF ok THEN "ok" ELSE "failed", IF ok THEN "ok" ELSE "error"),
      IF ok THEN "identity-complete" ELSE "identity-error")
(* Reveal and Check again run one function, which disables only the first   *)
(* button; the second asks past the cache.                                  *)
StartIdentity(ep, force) ==
  /\ Act /\ (force \/ "identity" \notin page.disabled)
  /\ IF ~page.online THEN Refuse("identity", "offline")
     ELSE LET d == [data EXCEPT !.idEp = ep]
              hit == {c \in page.cache : c.ep = ep}
          IN  IF ~force /\ hit # {}
              THEN /\ \E c \in hit : Identified(d, page, c.ok, "identity")
                   /\ UNCHANGED jobs
              ELSE /\ Start("identity", "identity", ep)
                   /\ data' = d /\ stored' = d
  /\ UNCHANGED traffic
StartWebrtc ==
  /\ Act /\ "webrtc" \notin page.disabled
  /\ IF ~page.online THEN Refuse("webrtc", "offline")
     ELSE Start("webrtc", "webrtc", Null) /\ UNCHANGED <<data, stored>>
  /\ UNCHANGED traffic

----------------------------------------------------------------------------
(* Answers.  A probe takes its samples one after the other; the last one    *)
(* ends the run.  An upload without a success is told in other words.       *)
FinishProbeRun(job) ==
  LET run == [kind |-> job.kind, n |-> Attempts, failed |-> job.failed]
      none == job.kind = "upload" /\ job.failed = Attempts
      freed == [page EXCEPT !.disabled = @ \ {job.kind}]
      told == IF none THEN Tell(freed, job.kind, "failed", "error")
              ELSE Tell(freed, job.kind, "ok", IF job.failed > 0 THEN "warn" ELSE "ok")
      d == Logged(SaveRun(data, run), IF none THEN "probe-error" ELSE "probe-complete")
  IN  /\ data' = d /\ stored' = d
      /\ page' = RenderHistory(Notified(told, d), d)
Sample(job, ok) ==
  LET next == [job EXCEPT !.left = @ - 1, !.failed = IF ok THEN @ ELSE @ + 1]
  IN  /\ job \in jobs /\ job.kind \in Probes
      /\ IF next.left > 0
         THEN jobs' = (jobs \ {job}) \cup {next} /\ UNCHANGED <<data, stored, page>>
         ELSE jobs' = jobs \ {job} /\ FinishProbeRun(next)
      /\ UNCHANGED <<traffic, inputs>>
(* The answer of a job that only shows and logs.                            *)
Answered(job, ok, good, bad) ==
  /\ job \in jobs /\ jobs' = jobs \ {job}
  /\ Log(data, Tell([page EXCEPT !.disabled = @ \ {job.kind}], PanelOf(job.kind),
                    IF ok THEN "ok" ELSE "failed", IF ok THEN "ok" ELSE "error"),
         IF ok THEN good ELSE bad)
  /\ UNCHANGED <<traffic, inputs>>
AnswerDns(job, ok) == job.kind = "dns" /\ Answered(job, ok, "dns-complete", "dns-error")
(* All resolvers have answered or failed, which compares them all the same. *)
Compared(job) == job.kind = "compare" /\ Answered(job, TRUE, "dns-compare", "")
(* The connection is gathered, read and torn down, or has failed on the way. *)
Inspected(job, ok) == job.kind = "webrtc" /\ Answered(job, ok, "webrtc-complete", "webrtc-error")
(* The cache keeps a good echo and a refusal, not a failed request.         *)
Reveal(job, how) ==
  LET kept == {c \in page.cache : c.ep # job.ep} \cup {[ep |-> job.ep, ok |-> how = "ok"]}
  IN  /\ job \in jobs /\ job.kind = "identity" /\ how \in {"ok", "refused", "failed"}
      /\ jobs' = jobs \ {job}
      /\ Identified(data, IF how = "failed" THEN page ELSE [page EXCEPT !.cache = kept],
                    how = "ok", "identity")
      /\ UNCHANGED <<traffic, inputs>>

----------------------------------------------------------------------------
(* The network comes and goes.  The flash of its return ends by a timer     *)
(* that looks whether it still shows.                                       *)
GoOnline ==
  /\ Act /\ ~page.online
  /\ Log(data, [page EXCEPT !.online = TRUE,
                            !.banner = [hidden |-> FALSE, says |-> "flash", timers |-> @.timers + 1]],
         "connectivity-online")
  /\ UNCHANGED <<jobs, traffic>>
GoOffline ==
  /\ Act /\ page.online
  /\ Log(data, [page EXCEPT !.online = FALSE, !.banner.hidden = FALSE, !.banner.says = "offline"],
         "connectivity-offline")
  /\ UNCHANGED <<jobs, traffic>>
FlashOver(banner) ==
  IF banner.says = "flash" THEN [hidden |-> TRUE, says |-> "", timers |-> banner.timers - 1]
  ELSE [banner EXCEPT !.timers = @ - 1]
FlashTimer ==
  /\ page.banner.timers > 0 /\ page' = [page EXCEPT !.banner = FlashOver(@)]
  /\ UNCHANGED <<data, stored, jobs, traffic, inputs>>

(* The buttons that only log: refresh all, a print, an export.              *)
LogOnly(type) ==
  /\ Act
  /\ Log(data, page, type) /\ UNCHANGED <<jobs, traffic>>
HistoryClear ==
  /\ Act
  /\ LET d == Logged([data EXCEPT !.hist = <<>>], "history-clear")
     IN  /\ data' = d /\ stored' = d
         /\ page' = RenderHistory(Notified(page, d), d)
  /\ UNCHANGED <<jobs, traffic>>
(* clear empties the store and removes its text; the log's button leaves it *)
(* at that, the report's logs that it did.                                  *)
Cleared(text) == Null
Clear ==
  /\ Act /\ data' = NoData /\ stored' = Cleared(stored)
  /\ page' = Notified(page, NoData) /\ UNCHANGED <<jobs, traffic>>
ReportClear ==
  /\ Act /\ Log(NoData, page, "session-clear") /\ UNCHANGED <<jobs, traffic>>
Reload ==
  LET b == Boot(stored, page.online)
  IN  /\ Act /\ data' = b.data /\ stored' = b.data /\ page' = b.page /\ jobs' = {}
      /\ traffic' = [entries |-> 0, rows |-> <<>>, observing |-> FALSE, queue |-> <<>>]

----------------------------------------------------------------------------
(* Traffic: a snapshot has what the browser kept, a stream replays that and *)
(* goes on; rows already shown are passed over.                             *)
Snapshot(n) == [i \in 1 .. (IF n < BufferMax THEN n ELSE BufferMax) |-> i]
Merge(rows, incoming) ==
  LastN(rows \o SelectSeq(incoming, LAMBDA e : e \notin ToSet(rows)), RowsMax)
ResourceLoads ==
  /\ Act
  /\ traffic' = [traffic EXCEPT !.entries = @ + 1,
       !.queue = IF traffic.observing THEN Append(@, traffic.entries + 1) ELSE @]
  /\ UNCHANGED <<data, stored, jobs, page>>
RefreshTraffic ==
  /\ Act /\ traffic' = [traffic EXCEPT !.rows = Snapshot(traffic.entries)]
  /\ Log(data, page, "traffic-refresh") /\ UNCHANGED jobs
ToggleStream ==
  /\ Act
  /\ traffic' = [traffic EXCEPT !.observing = ~@,
       !.queue = IF traffic.observing THEN <<>> ELSE Snapshot(traffic.entries)]
  /\ Log(data, page, IF traffic.observing THEN "traffic-observe-stop" ELSE "traffic-observe-start")
  /\ UNCHANGED jobs
Deliver ==
  /\ traffic.queue # <<>>
  /\ traffic' = [traffic EXCEPT !.rows = Merge(@, traffic.queue), !.queue = <<>>]
  /\ UNCHANGED <<data, stored, jobs, page, inputs>>

Next ==
  \/ \E kind \in Probes \cap Offers, given \in BOOLEAN : StartProbe(kind, given)
  \/ \E kind \in {"dns", "compare"} \cap Offers, valid \in BOOLEAN : StartDns(kind, valid)
  \/ "dns" \in Offers /\ TypeDnsEndpoint("own")
  \/ "identity" \in Offers /\ \E force \in BOOLEAN : StartIdentity("echo", force)
  \/ "webrtc" \in Offers /\ StartWebrtc
  \/ \E job \in jobs, ok \in BOOLEAN : Sample(job, ok)
  \/ \E job \in jobs, ok \in BOOLEAN : AnswerDns(job, ok) \/ Inspected(job, ok)
  \/ \E job \in jobs : Compared(job)
  \/ \E job \in jobs, how \in {"ok", "refused", "failed"} : Reveal(job, how)
  \/ "network" \in Offers /\ (GoOnline \/ GoOffline)
  \/ FlashTimer
  \/ "log" \in Offers /\ \E type \in {"manual-refresh", "report-export"} : LogOnly(type)
  \/ "clear" \in Offers /\ (HistoryClear \/ Clear \/ ReportClear \/ Reload)
  \/ "traffic" \in Offers /\ (ResourceLoads \/ RefreshTraffic \/ ToggleStream)
  \/ Deliver
Spec == Init /\ [][Next]_pulseVars

----------------------------------------------------------------------------
(* The caps hold, whatever is added and reloaded.                           *)
TypeOK ==
  /\ Len(data.events) <= MaxEvents /\ Len(data.hist) <= HistoryMax
  /\ \A job \in jobs : job.kind \in Kinds /\ job.left \in 1 .. Attempts
  /\ page.disabled \subseteq Kinds /\ page.banner.timers \in Nat
  /\ Len(traffic.rows) <= RowsMax \/ traffic.rows = Snapshot(Len(traffic.rows))
(* The event log, the monitor and the reports show the session as it is     *)
(* after every event; the table of the Quality tab shows the runs there are *)
(* (it keeps those of a session that was cleared from another tab).         *)
PanelsFollowStore ==
  /\ page.log = LogView(data) /\ page.monitor = MonitorView(data)
  /\ page.report = ReportView(data)
  /\ data.hist # <<>> => page.quality = QualityView(data)
(* Offline, the banner says so: no timer of an earlier return hides it.     *)
BannerTellsOffline ==
  ~page.online => page.banner.says = "offline" /\ ~page.banner.hidden
(* No entry is listed twice, through replays and snapshots.                 *)
RowsAreDistinct == IsInjective(traffic.rows)
(* What a reload would find is this session.                                *)
StoredIsSession == Load(stored) = data
(* Where one button asks, it is off exactly while a job of it is under way, *)
(* there is never a second one, and the status says so.                     *)
OneAtATime ==
  \A kind \in Probes \cup {"webrtc"} :
    LET mine == {job \in jobs : job.kind = kind}
    IN  /\ Cardinality(mine) <= 1
        /\ kind \in page.disabled <=> mine # {}
        /\ page.result[kind].status = "running" <=> mine # {}
================================================================================
