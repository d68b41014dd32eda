----------------------------- MODULE Screenshot -----------------------------
(***************************************************************************)
(* Screenshots of a controlled game (session/screenshot.rs, its capture    *)
(* service and its destination), with the render app that looks at the     *)
(* window's surface, the GPU that returns an image some time or never, and *)
(* the thread that encodes and writes it.                                  *)
(*                                                                         *)
(* Captures of one window would displace one another in the renderer, so   *)
(* one is active and the others queue.  A response must not be for another *)
(* request's image, nor for a buffer the renderer never filled.            *)
(***************************************************************************)
EXTENDS Input

CONSTANTS Paths, DiskFails

ASSUME DiskFailsAssumption == DiskFails \in BOOLEAN

VARIABLES
    service,    \* queue, active job, results of the writer not yet taken
    spawned,    \* history: the capture entities spawned so far
    live,       \* those still in the world
    frame,      \* the entity whose surface the current frame will check, or 0
    gpu,        \* copies of a frame under way: pairs of an entity and filled
    images,     \* readbacks waiting in CapturedScreenshots
    writers,    \* writer threads
    files       \* what each path holds: none, or the job that wrote it

shotVars == <<service, spawned, live, frame, gpu, images, writers, files>>

NoJob == [id |-> 0, path |-> "", window |-> 0]
Idle  == [job |-> NoJob, entity |-> 0, late |-> FALSE, writing |-> FALSE,
          surface |-> "unset"]

IsActive(s) == s.active.job.id # 0

\* pending(): the id waits or is being captured.
IsPending(id) == service.active.job.id = id \/ \E i \in DOMAIN service.queue : service.queue[i].id = id

-----------------------------------------------------------------------------
(***************************************************************************)
(* start(): before the first tick the renderer waits (plugin/render.rs);   *)
(* the path is not normalized, or cannot be prepared in the artifact       *)
(* directory; or there is no rendered primary window.                      *)
(***************************************************************************)
MayCapture(ticks) == ticks > 0 /\ world.primary # 0

Enqueue(id, path) ==
    service' = [service EXCEPT !.queue =
                    Append(@, [id |-> id, path |-> path, window |-> world.primary])]

-----------------------------------------------------------------------------
(***************************************************************************)
(* poll(), as the record p of what it changes: the service, the live       *)
(* entities, the writers it starts, and its responses.                     *)
(***************************************************************************)
Answer(id, outcome) == [id |-> id, outcome |-> outcome]

Rejecting(p) ==
    [p EXCEPT !.service.active = Idle,
              !.live = @ \ {p.service.active.entity},
              !.responses = Append(@, Answer(p.service.active.job.id, "rejected"))]

NoSurface(p) ==
    LET a == p.service.active IN
    IF IsActive(p.service) /\ ~a.writing /\ a.surface = "no" THEN Rejecting(p) ELSE p

\* Mutation of Expired: a frame with a surface is trusted to arrive.
ExpiredUnseen(p) ==
    LET a == p.service.active IN
    IF IsActive(p.service) /\ a.surface = "unset" /\ a.late THEN Rejecting(p) ELSE p

Expired(p) ==
    LET a == p.service.active IN
    IF IsActive(p.service) /\ ~a.writing /\ a.late THEN Rejecting(p) ELSE p

\* An image of another entity is the application's own screenshot, or too late.
TakeImage(p, image) ==
    LET a == p.service.active IN
    IF ~(IsActive(p.service) /\ ~a.writing /\ a.entity = image.entity) THEN p
    ELSE IF a.surface # "yes" THEN Rejecting(p)
    ELSE [p EXCEPT !.service.active.writing = TRUE,
                   !.live = @ \ {image.entity},
                   !.writers = @ \cup {[job |-> a.job, image |-> image, overwrites |-> "none"]}]

\* expect("one active writer") when there is none.
TakeResult(p) ==
    IF p.service.results = << >> THEN p
    ELSE LET result == Head(p.service.results) IN
         [p EXCEPT !.service.results = Tail(@),
                   !.service.active = Idle,
                   !.responses = Append(@, Answer(p.service.active.job.id, result.outcome))]

\* Jobs whose window is no longer the primary one are rejected, the next starts.
StartNext(p) ==
    LET queue == p.service.queue
        Fits(job) == world.primary # 0 /\ job.window = world.primary
        next  == SelectInSeq(queue, Fits)
        stale == SubSeq(queue, 1, IF next = 0 THEN Len(queue) ELSE next - 1)
        rejected == [i \in DOMAIN stale |-> Answer(stale[i].id, "rejected")]
        after == [p EXCEPT !.responses = @ \o rejected,
                           !.service.queue = SubSeq(queue, Len(stale) + 1, Len(queue))]
    IN  IF IsActive(p.service) THEN p
        ELSE IF next = 0 THEN after
        ELSE [after EXCEPT !.service.queue = Tail(@),
                           !.service.active = [Idle EXCEPT !.job = queue[next],
                                                           !.entity = p.spawned + 1],
                           !.spawned = @ + 1,
                           !.live = @ \cup {p.spawned + 1}]

Polled ==
    LET now == [service |-> service, live |-> live, spawned |-> spawned,
                writers |-> writers, responses |-> << >>]
    IN  StartNext(TakeResult(FoldLeft(TakeImage, Expired(NoSurface(now)), images)))

PollScreenshots(polled) ==
    /\ service' = polled.service
    /\ live' = polled.live
    /\ spawned' = polled.spawned
    /\ writers' = polled.writers
    /\ images' = << >>
    /\ UNCHANGED <<frame, gpu, files>>

-----------------------------------------------------------------------------
(* The render app (capture/surface.rs), pipelined with the main thread *)

\* A frame extracts the new capture and the active request without a verdict.
Extract ==
    /\ frame = 0
    /\ IsActive(service) /\ service.active.surface = "unset"
    /\ service.active.entity \in live
    /\ frame' = service.active.entity
    /\ UNCHANGED <<service, spawned, live, gpu, images, writers, files>>

\* Mutation of Check: a copy of an unverified frame passes for a verified one.
CheckTrusting ==
    /\ frame # 0
    /\ \E available \in BOOLEAN :
          /\ gpu' = gpu \cup {[entity |-> frame, filled |-> available]}
          /\ service' = IF service.active.entity = frame
                        THEN [service EXCEPT !.active.surface = "yes"] ELSE service
    /\ frame' = 0
    /\ UNCHANGED <<spawned, live, images, writers, files>>

(***************************************************************************)
(* The verdict belongs to the request, whose cell may be gone.  Without a  *)
(* surface the renderer still maps the buffer, unfilled.                   *)
(***************************************************************************)
Check ==
    /\ frame # 0
    /\ \E available \in BOOLEAN :
          /\ gpu' = gpu \cup {[entity |-> frame, filled |-> available]}
          /\ service' = IF service.active.entity = frame
                        THEN [service EXCEPT !.active.surface = IF available THEN "yes" ELSE "no"]
                        ELSE service
    /\ frame' = 0
    /\ UNCHANGED <<spawned, live, images, writers, files>>

\* The GPU returns an image, or nothing; at any time, in any order.
Readback ==
    /\ \E image \in gpu :
          /\ gpu' = gpu \ {image}
          /\ images' \in {images, Append(images, image)}
    /\ UNCHANGED <<service, spawned, live, frame, writers, files>>

\* READBACK_TIMEOUT has passed since the capture was spawned.
ReadbackTimeout ==
    /\ IsActive(service) /\ ~service.active.late
    /\ service' = [service EXCEPT !.active.late = TRUE]
    /\ UNCHANGED <<spawned, live, frame, gpu, images, writers, files>>

-----------------------------------------------------------------------------
(* A writer thread: encode, prepare, then a temporary file and its rename *)

WriterReports(w, outcome, entry) ==
    /\ writers' = writers \ {w}
    /\ service' = [service EXCEPT !.results = Append(@, [outcome |-> outcome, job |-> w.job])]
    /\ files' = [files EXCEPT ![w.job.path] = entry]
    /\ UNCHANGED <<spawned, live, frame, gpu, images>>

Prepare(w) ==
    /\ w.overwrites = "none"
    /\ writers' = (writers \ {w}) \cup
           {[w EXCEPT !.overwrites = IF files[w.job.path] = "none" THEN "no" ELSE "yes"]}
    /\ UNCHANGED <<service, spawned, live, frame, gpu, images, files>>

\* A failed write, sync or rename removes the temporary and leaves the path alone.
WriteFails(w) == DiskFails /\ WriterReports(w, "rejected", files[w.job.path])

Rename(w) ==
    /\ w.overwrites # "none"
    /\ WriterReports(w, "completed", IF w.image.filled THEN "image" ELSE "unfilled")

Writer == \E w \in writers : Prepare(w) \/ WriteFails(w) \/ Rename(w)

ShotInit ==
    /\ service = [queue |-> << >>, active |-> Idle, results |-> << >>]
    /\ spawned = 0 /\ live = {} /\ frame = 0 /\ gpu = {} /\ images = << >>
    /\ writers = {}
    /\ files = [path \in Paths |-> "none"]

-----------------------------------------------------------------------------
(* Properties *)

(***************************************************************************)
(* A capture that is written is the active one, with its own filled image; *)
(* its result is taken as the answer to the same request.  The deadline, a *)
(* late image and a new capture may come at any time in between.           *)
(***************************************************************************)
WriterServesActive ==
    LET results == ToSet(service.results) IN
    /\ Cardinality(writers) + Len(service.results)
         = IF service.active.writing THEN 1 ELSE 0
    /\ \A w \in writers :
          w.job = service.active.job /\ w.image = [entity |-> service.active.entity, filled |-> TRUE]
    /\ \A r \in results : r.job = service.active.job
    /\ \A path \in Paths : files[path] # "unfilled"
    /\ live = IF IsActive(service) /\ ~service.active.writing
              THEN {service.active.entity} ELSE {}
=============================================================================
