---------------------------- MODULE AssetRegistry ----------------------------
(***************************************************************************)
(* app/registry/manager.py and the endpoints of app/main.py over it: what  *)
(* registering, onboarding, matching and verifying an asset leave in       *)
(* Qdrant, in the graph and in the stream of search jobs.                  *)
(*                                                                         *)
(* A handler runs in the event loop and never waits while it calls Qdrant  *)
(* and Neo4j, so one request is in hand at a time; at its last call, to    *)
(* Redis, it does wait, and the next one begins.  An endpoint is the list  *)
(* of its calls, in their order.  Each may fail: a lenient one is logged   *)
(* and passed over, the others end the request with an error, and what     *)
(* went before stays.  Qdrant takes an upsert at once and applies it       *)
(* later (wait=False), each collection in the order it took them.          *)
(***************************************************************************)
EXTENDS Faults, Sequences, FiniteSets

CONSTANTS
  Asset, User,
  Content,      \* what an upload holds
  Extractor,    \* of "visual" and "semantic", those whose libraries are there
  TopK,         \* top_k of a request
  Hamming,      \* hamming_inconclusive_threshold of a request
  Endpoint,     \* bound: the endpoints that are called
  MaxRequests   \* bound

VARIABLES
  points,     \* the collections of Qdrant
  unapplied,  \* upserts taken and not applied
  links,      \* SIMILAR_TO and FLAGGED_WITH in Neo4j: from an asset, or a query, to an asset
  jobs,       \* the stream of search jobs
  request,    \* the request in hand, with the calls it has still to make
  awaiting,   \* those that wait for Redis
  requests

assetVars == <<points, unapplied, links, jobs, request, awaiting, requests, faults>>

\* The image, video and audio collections hold one kind of vector each, the
\* semantic one what either extractor makes of a picture.
Holds == [image |-> {"hash"}, video |-> {"frames"}, audio |-> {"sound"},
          semantic |-> {"visual", "semantic"}]
Collection == DOMAIN Holds
Kind == UNION {Holds[c] : c \in Collection}

Point == [asset : Asset, owner : User, kind : Kind, content : Content]

Call(do, collection, kind) ==
  [do |-> do, collection |-> collection, kind |-> kind, lenient |-> FALSE]
Put(collection, kind) == Call("put", collection, kind)
Find(collection, kind) == Call("find", collection, kind)
Try(call) == [call EXCEPT !.lenient = TRUE]
Relate == Try(Call("relate", "semantic", "semantic"))
Gate == Call("gate", "semantic", "semantic")
Enqueue == Call("enqueue", "semantic", "semantic")

With(extractor, calls) == IF extractor \in Extractor THEN calls ELSE <<>>

-----------------------------------------------------------------------------
(* The endpoints. *)

FingerprintImage ==
  <<Put("image", "hash")>>
    \o With("visual", <<Try(Put("semantic", "visual"))>>)
    \o With("semantic", <<Put("semantic", "semantic")>>)

FingerprintSemanticImage == With("semantic", <<Put("semantic", "semantic")>>)
FingerprintVideo == <<Put("video", "frames")>>
FingerprintAudio == <<Put("audio", "sound")>>

\* Mistake: the job is sent off before the asset is registered.
OnboardImageJobFirst ==
  With("visual", <<Find("semantic", "visual")>>) \o <<Enqueue, Put("image", "hash")>>

\* Matches are looked for before the asset is there to be found.
OnboardImage ==
  With("visual", <<Find("semantic", "visual"), Put("semantic", "visual")>>)
    \o <<Put("image", "hash"), Relate, Enqueue>>

OnboardAudio == <<Find("audio", "sound"), Put("audio", "sound"), Relate, Enqueue>>
OnboardVideo == <<Find("video", "frames"), Put("video", "frames"), Relate, Enqueue>>

\* The explanation of a picture's matches builds a graph around the query.
MatchImage ==
  <<Find("image", "hash")>>
    \o With("semantic", <<Try(Find("semantic", "semantic")), Relate>>)
MatchVideo == <<Find("video", "frames")>>
MatchAudio == <<Find("audio", "sound")>>

VisualFeatures == With("visual", <<Find("semantic", "visual")>>)

SlowGate == <<Find("image", "hash"), Gate>>

Calls ==
  [fingerprint_image |-> FingerprintImage, fingerprint_semantic |-> FingerprintSemanticImage,
   fingerprint_video |-> FingerprintVideo, fingerprint_audio |-> FingerprintAudio,
   onboard_image |-> OnboardImage, onboard_audio |-> OnboardAudio, onboard_video |-> OnboardVideo,
   match_image |-> MatchImage, match_video |-> MatchVideo, match_audio |-> MatchAudio,
   visual_features |-> VisualFeatures, slow_gate |-> SlowGate]

\* Those that match are asked about a query, which has no asset.
Asks == {"match_image", "match_video", "match_audio", "visual_features", "slow_gate"}

\* What a query is called in the graph, query:<hash>, is not an asset's id.
ASSUME AssetAssumption ==
  Endpoint \subseteq DOMAIN Calls /\ Asset \cap Content = {} /\ MaxRequests \in Nat

-----------------------------------------------------------------------------

Nothing == [hits |-> {}, own |-> {}]
NoRequest == [calls |-> <<>>]

AssetInit ==
  /\ points = [c \in Collection |-> {}]
  /\ unapplied = [c \in Collection |-> <<>>]
  /\ links = {} /\ jobs = {}
  /\ request = NoRequest /\ awaiting = {} /\ requests = 0
  /\ faults = 0

Arrive(endpoint, asset, user, content) ==
  /\ request = NoRequest /\ requests < MaxRequests
  /\ Calls[endpoint] # <<>>
  /\ request' = [calls |-> Calls[endpoint], found |-> Nothing, user |-> user, content |-> content,
                 subject |-> IF endpoint \in Asks THEN content ELSE asset]
  /\ requests' = requests + 1
  /\ UNCHANGED <<points, unapplied, links, jobs, awaiting, faults>>

Doing(do) == request # NoRequest /\ Head(request.calls).do = do
Now == Head(request.calls)

\* The call is made, and the next one is due.  The answer is sent after the last.
Going(rest, found) ==
  request' = IF rest = <<>> THEN NoRequest ELSE [request EXCEPT !.calls = rest, !.found = found]
Done(found) == Going(Tail(request.calls), found) /\ Fine

\* The call raises.
Raised ==
  /\ Fault
  /\ Going(IF Now.lenient THEN Tail(request.calls) ELSE <<>>, Nothing)

NewPoint ==
  [asset |-> request.subject, owner |-> request.user, kind |-> Now.kind, content |-> request.content]

Taken == unapplied' = [unapplied EXCEPT ![Now.collection] = Append(@, NewPoint)]

\* register_image, _video, _audio, _semantic.
Register ==
  /\ Doing("put")
  /\ \/ Taken /\ Done(request.found)
     \/ (Taken \/ UNCHANGED unapplied) /\ Raised
  /\ UNCHANGED <<points, links, jobs, awaiting, requests>>

Same(p, kind) == p.kind = kind /\ p.content = request.content

\* The k nearest of a set: nothing is nearer than a vector of the same kind and content.
Nearest(candidates, kind) ==
  {hits \in SUBSET candidates :
     /\ Cardinality(hits) <= TopK
     /\ \A p \in candidates \ hits :
          Cardinality(hits) = TopK /\ \A q \in hits : Same(p, kind) => Same(q, kind)}

Owned(collection) == {p \in points[collection] : p.owner = request.user}

\* Mistake: the owner is looked at after the nearest are taken.
MatchesFilteredLast(collection, kind) ==
  {{p \in hits : p.owner = request.user} : hits \in Nearest(points[collection], kind)}

\* match_image, _video, _audio, _semantic.  A query refused for want of an index
\* is made once more when the index is there.
Matches(collection, kind) == Nearest(Owned(collection), kind)

\* (own is for the property OwnCopyFound.)
Lookup(collection, kind) ==
  {[hits |-> hits, own |-> {p \in Owned(collection) : Same(p, kind)}] :
     hits \in Matches(collection, kind)}

Match ==
  /\ Doing("find")
  /\ \/ \E found \in Lookup(Now.collection, Now.kind) : Done(found)
     \/ Raised
  /\ UNCHANGED <<points, unapplied, links, jobs, awaiting, requests>>

\* The score of the best match, 1 for the same picture, is compared with the
\* threshold for distances.
Inconclusive ==
  \/ request.found.hits = {}
  \/ (IF \E p \in request.found.hits : Same(p, "hash") THEN 1 ELSE 0) > Hamming

SecondStage ==
  /\ Doing("gate")
  /\ IF Inconclusive /\ "semantic" \in Extractor
     THEN (\E found \in Lookup(Now.collection, Now.kind) : Done(found)) \/ Raised
     ELSE Done(request.found)
  /\ UNCHANGED <<points, unapplied, links, jobs, awaiting, requests>>

\* upsert_asset_context: every link is a transaction.
UpsertContext ==
  /\ Doing("relate")
  /\ LET new == {[from |-> request.subject, to |-> p.asset] : p \in request.found.hits}
     IN \/ links' = links \cup new /\ Done(request.found)
        \/ \E some \in SUBSET new : links' = links \cup some /\ Raised
  /\ UNCHANGED <<points, unapplied, jobs, awaiting, requests>>

\* The event loop goes on with other requests.
Await ==
  /\ Doing("enqueue")
  /\ awaiting' = awaiting \cup {request} /\ request' = NoRequest
  /\ UNCHANGED <<points, unapplied, links, jobs, requests, faults>>

EnqueueJob(r) ==
  /\ r \in awaiting /\ awaiting' = awaiting \ {r}
  /\ LET job == [asset |-> r.subject, user |-> r.user]
     IN \/ jobs' = jobs \cup {job} /\ Fine
        \/ /\ jobs' = jobs \cup {job} \/ UNCHANGED jobs
           /\ Fault
  \* Calls that follow, if any, are made now.
  /\ request = NoRequest
  /\ request' = IF Tail(r.calls) = <<>> THEN NoRequest ELSE [r EXCEPT !.calls = Tail(r.calls)]
  /\ UNCHANGED <<points, unapplied, links, requests>>

\* The process ends and is started again.
Restart ==
  /\ request # NoRequest \/ awaiting # {}
  /\ Fault
  /\ request' = NoRequest /\ awaiting' = {}
  /\ UNCHANGED <<points, unapplied, links, jobs, requests>>

\* The id of a point is made from its asset's: the newer one replaces the older.
Apply(c) ==
  /\ unapplied[c] # <<>>
  /\ LET new == Head(unapplied[c])
     IN points' = [points EXCEPT ![c] = {p \in @ : p.asset # new.asset} \cup {new}]
  /\ unapplied' = [unapplied EXCEPT ![c] = Tail(@)]
  /\ UNCHANGED <<links, jobs, request, awaiting, requests, faults>>

AssetNext ==
  \/ \E e \in Endpoint, a \in Asset, u \in User, c \in Content : Arrive(e, a, u, c)
  \/ Register \/ Match \/ SecondStage \/ UpsertContext \/ Await
  \/ \E r \in awaiting : EnqueueJob(r)
  \/ \E c \in Collection : Apply(c)
  \/ Restart

AssetSpec == AssetInit /\ [][AssetNext]_assetVars

-----------------------------------------------------------------------------
AssetTypeOK ==
  /\ points \in [Collection -> SUBSET Point]
  /\ unapplied \in [Collection -> Seq(Point)]
  /\ links \subseteq [from : Asset \cup Content, to : Asset]
  /\ jobs \subseteq [asset : Asset, user : User]
  /\ request = NoRequest \/ request.found.hits \cup request.found.own \subseteq Point
  /\ NoRequest \notin awaiting
  /\ requests \in 0..MaxRequests /\ faults \in 0..MaxFaults

\* Whatever others have registered, a user whose copy of this very content is applied
\* finds it: his own copies come before anything else, as many as were asked for,
\* and nobody else's come.
OwnCopyFound ==
  request # NoRequest =>
    LET hits == request.found.hits
        own == request.found.own
    IN /\ own \subseteq hits \/ (hits \subseteq own /\ Cardinality(hits) = TopK)
       /\ \A p \in hits : p.owner = request.user

InRegistry(asset) ==
  \E c \in Collection :
    \/ \E p \in points[c] : p.asset = asset
    \/ \E i \in DOMAIN unapplied[c] : unapplied[c][i].asset = asset

\* What the search and the graph are told about is in the registry, or will be
\* once Qdrant has caught up, wherever a request failed or the process ended.
ReferencesResolve ==
  /\ \A j \in jobs : InRegistry(j.asset)
  /\ \A l \in links : InRegistry(l.to) /\ (l.from \in Asset => InRegistry(l.from))
=============================================================================
