------------------------------ MODULE PathConfs ------------------------------
(* The configurations a path may have in the instances of Path for TLC:    *)
(* each setting that its handlers test is on in one and off in another.    *)
CONSTANTS recA, recB

Plain ==
    [source |-> "publisher", sourceOnDemand |-> FALSE, runOnDemand |-> FALSE,
     origNode |-> FALSE, overridePublisher |-> TRUE, regexp |-> FALSE,
     fallback |-> FALSE, runOnReady |-> TRUE, maxReaders |-> 0,
     record |-> FALSE, recordPath |-> recA, forward |-> FALSE]

(* Publishing, with and without overriding, a limit on the readers, two    *)
(* recording settings that can be swapped while the path runs.             *)
PublisherConfs ==
    { [Plain EXCEPT !.regexp = TRUE, !.forward = TRUE, !.maxReaders = 1],
      [Plain EXCEPT !.overridePublisher = FALSE],
      [Plain EXCEPT !.record = TRUE],
      [Plain EXCEPT !.record = TRUE, !.recordPath = recB] }

(* A runOnDemand command starts the publisher.                             *)
RunOnDemandConfs ==
    { [Plain EXCEPT !.runOnDemand = TRUE, !.regexp = TRUE, !.maxReaders = 2],
      [Plain EXCEPT !.runOnDemand = TRUE, !.overridePublisher = FALSE] }

StaticConfs ==
    { [Plain EXCEPT !.source = "static"],
      [Plain EXCEPT !.source = "static", !.sourceOnDemand = TRUE, !.regexp = TRUE,
                    !.maxReaders = 1, !.forward = TRUE],
      [Plain EXCEPT !.source = "static", !.sourceOnDemand = TRUE],
      [Plain EXCEPT !.source = "redirect", !.regexp = TRUE] }

(* As bin/mmx_edge.yml: all paths may be pulled from an origin node.       *)
EdgeConfs ==
    { [Plain EXCEPT !.origNode = TRUE, !.regexp = TRUE],
      [Plain EXCEPT !.origNode = TRUE, !.overridePublisher = FALSE] }

AllConfs == PublisherConfs \cup RunOnDemandConfs \cup StaticConfs \cup EdgeConfs

(* Without the origin node, whose stream may outlive its source.           *)
RegularConfs == AllConfs \ EdgeConfs

(* What overriding the source would crash is left out.                     *)
WaitingConfs == {c \in AllConfs : ~(c.origNode /\ c.overridePublisher)}

=============================================================================
