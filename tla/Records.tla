------------------------------- MODULE Records -------------------------------
(***************************************************************************)
(* The pages of a player's records: catalysts and patterns, found by a     *)
(* breadth-first walk of the manifest's presentation nodes, and seals,     *)
(* found under two roots.  A page takes many queries, each of which may    *)
(* fail, and a download may replace the manifest between any two.          *)
(*                                                                         *)
(* A request shares nothing with another but the profile it is given,      *)
(* which RecordsFlights models; one is followed at a time.                 *)
(***************************************************************************)
EXTENDS ManifestFile, SequencesExt

CONSTANTS Nodes,
          Records,
          Children(_, _),   \* of a version and a node: its child nodes, in order
          Listed(_, _),     \* of a version and a node: its records, in order
          Catalysts,        \* the records that are catalysts, the rest are patterns
          Redeemed,         \* the records the player has
          Root,             \* of patterns and catalysts
          SealRoots         \* the active and the legacy root, in order

VARIABLES request

vars == <<file, version, swap, faults, request>>

NoRequest == [pc |-> "idle", page |-> None, began |-> None, chunk |-> <<>>, visited |-> {},
              collected |-> <<>>, found |-> <<>>, roots |-> <<>>, seals |-> <<>>, failed |-> {},
              told |-> {}]

Pages == {"catalysts", "patterns"}

TypeOK ==
    /\ ManifestTypeOK
    /\ request.pc \in {"idle", "walk", "definitions", "profile", "root", "sealNodes", "seal",
                       "error", "answered"}
    /\ request.page \in Pages \cup {"seals", None}
    /\ request.visited \subseteq Nodes
    /\ request.failed \subseteq ToSet(SealRoots)

Init == Found /\ request = NoRequest

Frame == UNCHANGED <<file, version, swap>>
Goes(next) == request' = next
GoesTo(pc) == Goes([request EXCEPT !.pc = pc])

-----------------------------------------------------------------------------
(* walkNodeForRecords. *)

GetPage(page) ==
    /\ request.pc \in {"idle", "error", "answered"}
    /\ Goes([NoRequest EXCEPT !.pc = "walk", !.page = page, !.began = file, !.chunk = <<Root>>])
    /\ Frame /\ UNCHANGED faults

\* The children that have not been visited are queued, in order.
Queued(queue, children, visited) ==
    FoldLeft(LAMBDA line, child : IF child \in visited THEN line ELSE Append(line, child),
             queue, children)

\* A node of the chunk: its records are collected, and its children queued.
\* Bug: a node queued by two others is collected for each.
CollectAgain(walk, node) ==
    [visited |-> walk.visited \cup {node},
     collected |-> Append(walk.collected, node),
     found |-> walk.found \o Listed(file, node),
     queue |-> Queued(walk.queue, Children(file, node), walk.visited \cup {node})]
Collect(walk, node) ==
    IF node \in walk.visited THEN walk
    ELSE [visited |-> walk.visited \cup {node},
          collected |-> Append(walk.collected, node),
          found |-> walk.found \o Listed(file, node),
          queue |-> Queued(walk.queue, Children(file, node), walk.visited \cup {node})]

Walk ==
    LET before == [visited |-> request.visited, collected |-> request.collected,
                   found |-> request.found, queue |-> <<>>]
        after  == FoldLeft(Collect, before, request.chunk)
    IN /\ request.pc = "walk" /\ request.chunk # <<>> /\ ~Closed
       /\ Goes([request EXCEPT !.visited = after.visited, !.collected = after.collected,
                               !.found = after.found, !.chunk = after.queue])
       /\ Frame /\ UNCHANGED faults

WalkFails ==
    /\ request.pc = "walk" /\ request.chunk # <<>>
    /\ QueryFails
    /\ GoesTo("error")
    /\ Frame

\* The definitions tell catalysts and patterns apart: without them the page is
\* empty.
ReadDefinitions ==
    /\ request.pc = "walk" /\ request.chunk = <<>>
    /\ \/ ~Closed /\ GoesTo("definitions") /\ UNCHANGED faults
       \/ QueryFails /\ Goes([request EXCEPT !.pc = "definitions", !.found = <<>>])
    /\ Frame

OfPage(record) == (record \in Catalysts) = (request.page = "catalysts")

\* The profile is read after the walk, and every record of the page is told of,
\* in the order it was found.
Tell ==
    /\ request.pc = "definitions"
    /\ \/ Goes([request EXCEPT !.pc = "answered", !.found = SelectSeq(@, OfPage)]) /\ UNCHANGED faults
       \/ Fault /\ GoesTo("error")
    /\ Frame

-----------------------------------------------------------------------------
(* GetSeals. *)

GetSeals ==
    /\ request.pc \in {"idle", "error", "answered"}
    /\ Goes([NoRequest EXCEPT !.pc = "profile", !.page = "seals", !.began = file, !.roots = SealRoots])
    /\ Frame /\ UNCHANGED faults

ReadProfile ==
    /\ request.pc = "profile"
    /\ \/ GoesTo("root") /\ UNCHANGED faults
       \/ Fault /\ GoesTo("error")
    /\ Frame

\* A root whose lookups fail is passed over.
\* Bug: the roots after it are, too.
PassedOverAll ==
    [request EXCEPT !.pc = "root", !.roots = <<>>, !.seals = <<>>, !.failed = @ \cup {Head(request.roots)}]
PassedOver ==
    [request EXCEPT !.pc = "root", !.roots = Tail(@), !.seals = <<>>, !.failed = @ \cup {Head(request.roots)}]

\* The root names its seals; the seals are then looked up in one query.
ReadRoot ==
    LET seals == Children(file, Head(request.roots))
    IN /\ request.pc = "root" /\ request.roots # <<>>
       /\ \/ /\ ~Closed
             /\ Goes(IF seals = <<>> THEN [request EXCEPT !.roots = Tail(@)]
                     ELSE [request EXCEPT !.pc = "sealNodes", !.seals = seals])
             /\ UNCHANGED faults
          \/ QueryFails /\ Goes(PassedOver)
       /\ Frame

\* What a seal's own node lists, and the nodes one level down.
SealNode(seal) == [seal |-> seal, records |-> Listed(file, seal), below |-> Children(file, seal)]

ReadSealNodes ==
    LET nodes == [i \in DOMAIN request.seals |-> SealNode(request.seals[i])]
    IN /\ request.pc = "sealNodes"
       /\ \/ ~Closed /\ Goes([request EXCEPT !.pc = "seal", !.seals = nodes]) /\ UNCHANGED faults
          \/ QueryFails /\ Goes(PassedOver)
       /\ Frame

\* One more seal is told of, with these triumphs: it is complete when none is
\* left to do.  After the last one comes the next root.
ToldWith(triumphs) ==
    LET seal == Head(request.seals).seal
        done == SelectSeq(triumphs, LAMBDA record : record \in Redeemed)
        left == Tail(request.seals)
    IN [request EXCEPT
            !.told = @ \cup {[seal |-> seal, total |-> Len(triumphs), done |-> Len(done)]},
            !.seals = left,
            !.pc = IF left = <<>> THEN "root" ELSE "seal",
            !.roots = IF left = <<>> THEN Tail(@) ELSE @]

Below(v, nodes) == FoldLeft(LAMBDA records, node : records \o Listed(v, node), <<>>, nodes)

\* A lookup of the nodes below that fails leaves their triumphs out, unsaid.
TellSeal ==
    LET seal == Head(request.seals)
    IN /\ request.pc = "seal"
       /\ \/ /\ ~Closed \/ seal.below = <<>>
             /\ Goes(ToldWith(seal.records \o Below(file, seal.below))) /\ UNCHANGED faults
          \/ /\ seal.below # <<>> /\ QueryFails
             /\ Goes([ToldWith(seal.records) EXCEPT !.failed = @ \cup {Head(request.roots)}])
       /\ Frame

TellSeals ==
    /\ request.pc = "root" /\ request.roots = <<>>
    /\ GoesTo("answered")
    /\ Frame /\ UNCHANGED faults

Next ==
    \/ Download /\ UNCHANGED request
    \/ swap = "reopened" /\ swap' = "idle" /\ UNCHANGED <<file, version, faults, request>>
    \/ \E page \in Pages : GetPage(page)
    \/ Walk \/ WalkFails \/ ReadDefinitions \/ Tell
    \/ GetSeals \/ ReadProfile \/ ReadRoot \/ ReadSealNodes \/ TellSeal \/ TellSeals

Spec == Init /\ [][Next]_vars

-----------------------------------------------------------------------------
(* Properties. *)

\* The nodes may form a cycle, be reached by several paths, and change between
\* two rounds: the walk collects no node's records twice, and so it ends.
WalkCollectsOnce == IsInjective(request.collected)

\* Whatever fails under one root, the seals of the other are told in full, all
\* of their triumphs counted.
Triumphs(seal) == Listed(file, seal) \o Below(file, Children(file, seal))
OneRootFailsAlone ==
    request.pc = "answered" /\ request.page = "seals" /\ request.began = file =>
        \A root \in ToSet(SealRoots) \ request.failed :
            \A seal \in ToSet(Children(file, root)) :
                \E told \in request.told :
                    told.seal = seal /\ told.total = Len(Triumphs(seal))

=============================================================================
