---------------------------- MODULE MCAdmission ----------------------------
(* Two PRs, the first pushed twice, with one issue between them.           *)
EXTENDS Admission, TLC

CONSTANTS p1, p2, a1, a2, b1, i1, web, default

MCHeads == p1 :> <<a1, a2>> @@ p2 :> <<b1>>

\* The tests fail on a1 sometimes, and print something else on b1 each time.
MCRuns   == [h \in {a1, a2, b1} |-> IF h = a1 THEN BOOLEAN ELSE {TRUE}]
MCLinked == p1 :> {i1} @@ p2 :> {}

MCBudget == "tick" :> 8 @@ "gated" :> 1

Differ == [crashes |-> FALSE, level |-> MINOR, unsure |-> FALSE, authoritative |-> FALSE]
File   == [status |-> "M", nonApi |-> FALSE, risky |-> FALSE, declared |-> TRUE,
           markers |-> FALSE, differs |-> {Differ}, moved |-> FALSE]
Fragment(level) ==
    [bumps |-> web :> level, bump |-> NoBump, component |-> default, issues |-> {}]

Fine      == [files |-> {File}, globs |-> "live", fragment |-> Fragment(MINOR),
              closes |-> {}, signed |-> TRUE]
Risky     == [Fine EXCEPT !.files = {[File EXCEPT !.risky = TRUE, !.nonApi = TRUE]}]
Unclaimed == [Fine EXCEPT !.files = {[File EXCEPT !.differs = {}]},
                          !.fragment = Fragment(MAJOR)]
Crashing  == [Fine EXCEPT !.files = {[File EXCEPT !.differs = {[Differ EXCEPT !.crashes = TRUE]}]}]
Closing   == [Fine EXCEPT !.closes = {i1}]
Renaming  == [Fine EXCEPT !.files =
                { [File EXCEPT !.status = "R"],
                  [File EXCEPT !.status = "D", !.moved = TRUE, !.declared = FALSE,
                               !.differs = {[Differ EXCEPT !.level = MAJOR]}] }]

By(h, type) == [head |-> h, type |-> type]

Tick  == [wiring |-> "tick", content |-> [h \in {a1, a2, b1} |-> Fine], blocked |-> {},
          approvals |-> {}, blanks |-> FALSE, unholds |-> 1, reruns |-> 0, outages |-> 0,
          troubles |-> 1]
Gated == [Tick EXCEPT !.wiring = "gated"]

\* The job as it is, disturbed once, or with reports that are replaced or have no
\* text; and, under the gates, a risky change that an agent or a human may approve,
\* also in the wrong version; one that nobody claims, beside one that declares too
\* little because its differ crashes; one that closes an issue, with lookups that
\* fail; and a rename behind a PR whose first head has a lockfile that never comes
\* out the same, with CI run again.
MCCases ==
    { Tick,
      [Tick EXCEPT !.blanks = TRUE, !.reruns = 1, !.unholds = 0, !.troubles = 0],
      [Gated EXCEPT !.content = a1 :> Risky @@ a2 :> Fine @@ b1 :> Fine,
                    !.approvals = {By(a1, "agent"), By(a1, "human"), By(a2, "human")},
                    !.troubles = 0],
      [Gated EXCEPT !.content = a1 :> Fine @@ a2 :> Unclaimed @@ b1 :> Crashing,
                    !.approvals = {By(a2, "human")}, !.unholds = 0],
      [Gated EXCEPT !.content = a1 :> Closing @@ a2 :> Fine @@ b1 :> Unclaimed,
                    !.unholds = 0, !.troubles = 0, !.outages = 2],
      [Gated EXCEPT !.content = a1 :> Fine @@ a2 :> Fine @@ b1 :> Renaming,
                    !.blocked = {a1}, !.reruns = 1, !.unholds = 0, !.troubles = 0] }
=============================================================================
