----------------------------- MODULE MCJournal -----------------------------
(* Journal on a two-level hierarchy, with its configuration files. *)
EXTENDS Journal

MCDuration == [l \in 0 .. 1 |-> 2 * 2 ^ l]
MCMaxItems == [l \in 0 .. 1 |-> IF l = 0 THEN 3 ELSE 2]
MCAge == [l \in 0 .. 1 |-> IF l = 0 THEN 0 ELSE 4]
MCHashes == [l \in 0 .. 1 |-> "ChildHashes"]
MCTimes == {0, 2}
MCAgeLimit == 9

(* The configuration of this instance. *)
MCConfig ==
    [levels |-> <<[name |-> "fine", duration |-> 2, items |-> 3, age |-> 0,
                   content |-> "ChildHashes"],
                  [name |-> "coarse", duration |-> 4, items |-> 2, age |-> 4,
                   content |-> "ChildHashes"]>>,
     storage |-> [kind |-> "File", path |-> "directory", openFiles |-> 10],
     compression |-> [enabled |-> TRUE, algorithm |-> "Zstd", level |-> 22],
     logging |-> [level |-> "info", file |-> FALSE, path |-> "empty"],
     metrics |-> [enabled |-> TRUE, interval |-> 1, endpoint |-> "url"],
     retention |-> [enabled |-> TRUE, period |-> 0, cleanup |-> 1]]

(* One step beyond each limit of the validation. *)
MCRefused ==
    {[MCConfig EXCEPT !.levels = <<>>],
     [MCConfig EXCEPT !.levels[2].name = "fine"],
     [MCConfig EXCEPT !.levels[1].duration = 0],
     [MCConfig EXCEPT !.levels[2].duration = 2],
     [MCConfig EXCEPT !.levels[2].items = 0],
     [MCConfig EXCEPT !.levels[1].age = MCAgeLimit],
     [MCConfig EXCEPT !.storage.path = "orphan"],
     [MCConfig EXCEPT !.storage.openFiles = 9],
     [MCConfig EXCEPT !.compression.level = 23],
     [MCConfig EXCEPT !.compression.algorithm = "Lz4"],
     [MCConfig EXCEPT !.logging.file = TRUE],
     [MCConfig EXCEPT !.metrics.interval = 0],
     [MCConfig EXCEPT !.retention.cleanup = 2, !.retention.period = 1],
     [MCConfig EXCEPT !.compression.algorithm = "Snappy"]}

(* Accepted, with levels other than those of this instance. *)
MCOthers ==
    {[MCConfig EXCEPT !.levels[2].duration = 3],
     [MCConfig EXCEPT !.storage.kind = "Memory", !.storage.path = "empty",
                      !.levels = <<@[1]>>]}

MCFiles ==
    {[kind |-> k] : k \in {"missing", "unreadable", "unparsable"}}
    \cup {[kind |-> "parsed", config |-> c] : c \in MCRefused \cup MCOthers \cup {MCConfig}}
=============================================================================
