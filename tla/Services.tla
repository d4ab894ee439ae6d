------------------------------ MODULE Services -------------------------------
(***************************************************************************)
(* The services of the backend whose steps interleave: the two queues that *)
(* outlive a process, the idempotency keys, the guards around a handler,   *)
(* the mails and their breaker, the rows that are read and saved later,    *)
(* the caches and the probes.  They share no state: the first state picks  *)
(* the one that moves, the others stay in an initial state.  A service     *)
(* with several initial states has all of them when it is picked.          *)
(***************************************************************************)
EXTENDS Integers

CONSTANTS
  Event, Worker,                                                    \* outbox
  Delivery, Undecryptable, Poster,                                  \* webhooks
  EventAttempts, DeliveryAttempts,
  BatchLimit,                                                       \* rows of a batch
  MaxCrashes, MaxBreaks,                                            \* bounds of both
  ArrivingRequest, Argument, StrictLimit, DefaultLimit,             \* requests
  KeyedRequest, Key,                                                \* keys
  Mail, AskedKind, MaxAttempts, FailureThreshold, CounterLife, ResetTimeout, MaxMailClock,
  Email, NewsletterRequest, MaxRow,                                 \* newsletter
  Workspace, Amenity, Name, Slug, TableRequest, None,               \* tables
  PictureRequest, MaxAsset,                                         \* pictures
  StatsRequest, Life, MaxCompute, MaxStatsClock,                    \* stats
  ShortLimit, LongLimit, ProbeLimit, MaxProbeClock                  \* probes

VARIABLES
  part,
  event, worker, crashes, published, failed, shared,
  delivery, line, poster, breaks, accepted, tried, raced,
  route, request, hits, cache, audited,
  entry, call, late, ran, overlapped,
  mail, failures, breaker, failedAt, mailClock,
  subscribers, nextRow, subscription, messages, score, keywords, room, inbox,
  workspaces, amenities, hubs, edit, picture, assets, uploads,
  cacheClock, kept, reading, served,
  asked, configured, stage, since, verdict, open, probeClock

outboxVars == <<event, worker, crashes, published, failed, shared>>
webhookVars == <<delivery, line, poster, breaks, accepted, tried, raced>>
requestVars == <<route, request, hits, cache, audited>>
keyVars == <<entry, call, late, ran, overlapped>>
mailVars == <<mail, failures, breaker, failedAt, mailClock>>
inboxVars == <<subscribers, nextRow, subscription, messages, score, keywords, room, inbox>>
catalogVars == <<workspaces, amenities, hubs, edit, picture, assets, uploads>>
statsVars == <<cacheClock, kept, reading, served>>
healthVars == <<asked, configured, stage, since, verdict, open, probeClock>>
vars == <<part, outboxVars, webhookVars, requestVars, keyVars, mailVars, inboxVars, catalogVars,
          statsVars, healthVars>>

-----------------------------------------------------------------------------
(* The instances *)

Outboxes == INSTANCE Outbox WITH
  Limit <- BatchLimit, MaxAttempts <- EventAttempts

Webhooks == INSTANCE WebhookDelivery WITH
  Limit <- BatchLimit, MaxAttempts <- DeliveryAttempts, MaxCrashes <- MaxBreaks

Requests == INSTANCE Requests WITH Request <- ArrivingRequest

Keys == INSTANCE Idempotency WITH
  Request <- KeyedRequest, request <- call, raced <- overlapped

Mails == INSTANCE Mail WITH MaxClock <- MaxMailClock, clock <- mailClock

Newsletter == INSTANCE Inbox WITH
  Request <- NewsletterRequest, Address <- {}, Submission <- {}, User <- {}, Socket <- {},
  Keyword <- {}, request <- subscription

Tables == INSTANCE Catalog WITH Request <- TableRequest, MaxAsset <- 0, request <- edit

Pictures == INSTANCE Catalog WITH
  Workspace <- {}, Amenity <- {}, Name <- {}, Slug <- {}, Request <- PictureRequest,
  request <- edit

Stats == INSTANCE StatsCache WITH
  Request <- StatsRequest, MaxClock <- MaxStatsClock,
  clock <- cacheClock, entry <- kept, request <- reading

Probes == INSTANCE Health WITH MaxClock <- MaxProbeClock, clock <- probeClock

ASSUME Given ==
  /\ Outboxes!EventAssumption /\ Outboxes!NumbersAssumption
  /\ Webhooks!DeliveryAssumption /\ Webhooks!NumbersAssumption
  /\ Requests!RequestsAssumption /\ Mails!MailAssumption /\ Newsletter!InboxAssumption
  /\ Tables!CatalogAssumption /\ Pictures!CatalogAssumption
  /\ Stats!StatsCacheAssumption /\ Probes!HealthAssumption

-----------------------------------------------------------------------------
Parts == {"outbox", "webhooks", "requests", "keys", "mails", "newsletter", "tables", "pictures",
          "stats", "probes"}

Init ==
  /\ part \in Parts
  /\ Outboxes!Init /\ Webhooks!Init
  /\ Requests!Init /\ (part # "requests" => route = CHOOSE r \in Requests!AllRoutes : TRUE)
  /\ Keys!Init /\ Mails!Init /\ Newsletter!Init
  /\ IF part = "pictures" THEN Pictures!Init ELSE Tables!Init
  /\ Stats!Init /\ Probes!Init
  /\ part # "probes" => asked = Probes!Deep /\ configured = Probes!Dependency

Others ==
  /\ part' = part
  /\ IF part = "outbox" THEN TRUE ELSE UNCHANGED outboxVars
  /\ IF part = "webhooks" THEN TRUE ELSE UNCHANGED webhookVars
  /\ IF part = "requests" THEN TRUE ELSE UNCHANGED requestVars
  /\ IF part = "keys" THEN TRUE ELSE UNCHANGED keyVars
  /\ IF part = "mails" THEN TRUE ELSE UNCHANGED mailVars
  /\ IF part = "newsletter" THEN TRUE ELSE UNCHANGED inboxVars
  /\ IF part \in {"tables", "pictures"} THEN TRUE ELSE UNCHANGED catalogVars
  /\ IF part = "stats" THEN TRUE ELSE UNCHANGED statsVars
  /\ IF part = "probes" THEN TRUE ELSE UNCHANGED healthVars

Next ==
  \/ part = "outbox" /\ Outboxes!Next /\ Others
  \/ part = "webhooks" /\ Webhooks!Next /\ Others
  \/ part = "requests" /\ Requests!Next /\ Others
  \/ part = "keys" /\ Keys!Next /\ Others
  \/ part = "mails" /\ Mails!Next /\ Others
  \/ part = "newsletter" /\ Newsletter!Next /\ Others
  \/ part = "tables" /\ Tables!Next /\ Others
  \/ part = "pictures" /\ Pictures!Next /\ Others
  \/ part = "stats" /\ Stats!Next /\ Others
  \/ part = "probes" /\ Probes!Next /\ Others

\* The fairness of the two queues, for the one that moves.
Working ==
  /\ \A e \in Event : WF_outboxVars(part = "outbox" /\ Outboxes!EventDue(e))
  /\ \A w \in Worker : WF_outboxVars(part = "outbox" /\ Outboxes!WorkerStep(w))
  /\ \A d \in Delivery : WF_webhookVars(part = "webhooks" /\ Webhooks!DeliveryDue(d))
  /\ \A p \in Poster : WF_webhookVars(part = "webhooks" /\ Webhooks!PosterStep(p))

Spec == Init /\ [][Next]_vars
LiveSpec == Spec /\ Working

-----------------------------------------------------------------------------
(* Properties: those of the modules, each for the service that moves *)

\* outbox.service.ts, webhook.service.ts: a row counts as sent or delivered only after the
\* other side took it, and as failed or dead only after every attempt was made and failed.
QueuesTruthful ==
  /\ part = "outbox" => Outboxes!TypeOK /\ Outboxes!Truthful
  /\ part = "webhooks" => Webhooks!TypeOK /\ Webhooks!Truthful

\* Every row ends, whatever crashes or races, as long as no delivery whose secret does not
\* decrypt waits before it; and what has ended is not taken up again, but by a process that
\* had read it before.
QueuesEnd ==
  /\ Outboxes!EventEnds /\ Outboxes!Final
  /\ Webhooks!DeliveryEndsUnblocked /\ Webhooks!Final

\* idempotency.middleware.ts: a key runs its handler to success once, unless two requests
\* read the empty entry before either had marked it; and no sentinel outlives its request.
RunsOnce == part = "keys" => Keys!TypeOK /\ Keys!RunsOnce /\ Keys!SentinelGoes

\* smtp-circuit-breaker.ts: the breaker is open only because of enough failures that
\* followed each other closely, and no longer than its time after the last of them.
BreakerEarned == part = "mails" => Mails!TypeOK /\ Mails!BreakerEarned

\* dashboard.service.ts: an answer of the cache is no older than the life of an entry and
\* one computation, whatever overlaps.
StaleBounded == part = "stats" => Stats!TypeOK /\ Stats!StaleBounded

\* No handler runs without the user it reads (jwt-auth.guard.ts); an address has one row
\* (newsletter.service.ts), no upload of a picture is deleted by another one before it is
\* stored (upload-profile-picture.provider.ts), and a probe ends and leaves nothing open
\* (health.controller.ts).
ServicesAgree ==
  /\ part = "requests" =>
       Requests!TypeOK /\ Requests!HandlersHaveUser
  /\ part = "newsletter" => Newsletter!TypeOK /\ Newsletter!OneRowPerAddress
  /\ part = "tables" => Tables!TypeOK
  /\ part = "pictures" => Pictures!TypeOK /\ Pictures!UploadSurvives
  /\ part = "probes" => Probes!TypeOK /\ Probes!ProbeEnds
=============================================================================
