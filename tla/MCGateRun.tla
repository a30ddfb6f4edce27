------------------------------- MODULE MCGateRun -------------------------------
(***************************************************************************)
(* Pull requests over two applications, one of which may have a directory  *)
(* of its own below it, small enough to enumerate.  The scenario sets      *)
(* below are the values of the constant Scenarios.                         *)
(***************************************************************************)
EXTENDS GateRun

MCDirectories == {"app", "app/db", "jobs"}
MCAbove(d) == IF d = "app/db" THEN {"app/db", "app"} ELSE {d}
MCNodes == 1

Table(cpu) == [cpu |-> cpu, mem |-> 0, sto |-> 0, hours |-> 1,
               missingCpu |-> 1, missingMem |-> 1, currency |-> "USD"]

\* The thresholds, scaled down; in proportion those of src/gate.yaml.
Config(mode, treatErrors) ==
    [mode |-> mode, blockAbs |-> 4, blockPct |-> 50, warnAbs |-> 2, warnPct |-> 10,
     allowDecrease |-> TRUE, ceilingMax |-> 6, ceilingWarn |-> 3, burstRatio |-> 4,
     failOn |-> {"block"}, overrides |-> [rule \in {"GATE-099"} |-> "warn"],
     treatErrors |-> treatErrors]

Manifest(kind, name, cpu) ==
    [kind |-> kind, ns |-> "demo", name |-> name, replicas |-> Absent,
     pod |-> IF kind = "ScaledObject" THEN Absent
             ELSE [containers |-> <<[cpu |-> cpu, mem |-> Absent, eph |-> Absent, sidecar |-> FALSE]>>,
                   inits |-> <<>>],
     claims |-> <<>>, target |-> Absent, min |-> Absent, max |-> Absent]

\* One Deployment; its name says what the rules think of it.
Plain(name, cpu) == <<Manifest("Deployment", name, cpu)>>

Elastic(name, cpu, min, max) ==
    Append(Plain(name, cpu),
           [Manifest("ScaledObject", name, Absent) EXCEPT
               !.target = [kind |-> Absent, name |-> name], !.min = min, !.max = max])

Violation(rule, severity, o) == [rule |-> rule, severity |-> severity, ref |-> o.name]

MCViolations(ms) ==
    {Violation("GATE-001", "block", o) : o \in {m \in ms : m.name = "lax"}} \cup
    {Violation("GATE-099", "block", o) : o \in {m \in ms : m.name = "tolerated"}}

MCRuleErrors(ms) == {m.name : m \in {x \in ms : x.name = "opaque"}}

Plainly(yaml) == [kustomized |-> FALSE, takesIn |-> <<>>, yaml |-> yaml]
Kustomization(yaml, takesIn) == [kustomized |-> TRUE, takesIn |-> takesIn, yaml |-> yaml]

Tree(app, db, jobs) ==
    [d \in MCDirectories |-> CASE d = "app" -> app [] d = "app/db" -> db [] d = "jobs" -> jobs]

\* Two applications with a kustomization each, as in src/manifests; a rendering
\* may be NoDir.
Application(rendering) == IF rendering = NoDir THEN NoDir ELSE Kustomization(rendering, <<>>)

Trees(first, second) == {Tree(Application(a), NoDir, Application(b)) : a \in first, b \in second}

\* The rate table is a file of app, so rates change only where app does.
PullRequests(cfgs, bases, heads, tables, engines) ==
    {s \in [cfg : cfgs, mergeBase : bases, base : bases, head : heads,
            baseTable : tables \cup {Absent}, headTable : tables, engine : engines] :
        /\ s.mergeBase = s.base
        /\ RatesChanged(BaseTable(s), s.headTable) => s.head["app"] # s.base["app"]}

\* Every way a root can render, fail to, be new or be gone; rates that double;
\* rules that are broken.
AllOutcomes ==
    PullRequests({Config("both", TRUE), Config("percent", FALSE)},
                 Trees({NoDir, Unrenderable, Plain("web", 1), Plain("web", Malformed)},
                       {NoDir, Plain("job", 2)}),
                 Trees({NoDir, Unrenderable, Plain("web", 1), Plain("web", 6), Plain("web", Malformed),
                        Plain("lax", Malformed)},
                       {NoDir, Plain("job", 2), Plain("opaque", 2), Plain("tolerated", 3),
                        Elastic("job", 2, 1, 3), Elastic("lax", 1, 1, 9)}),
                 {Table(1), Table(2)},
                 {"ok", "broken"})

\* A gate.yaml whose warning level could never fire, a rate table without hours,
\* one that assumes what is no quantity.
Misconfigured ==
    LET branch == Trees({Plain("web", 1)}, {NoDir, Plain("job", 2)})
    IN  PullRequests({[Config("both", TRUE) EXCEPT !.warnAbs = 4]}, branch, branch, {Table(1)}, {"ok"})
        \cup PullRequests({Config("both", TRUE)}, branch, branch,
                          {[Table(1) EXCEPT !.hours = 0], [Table(1) EXCEPT !.missingMem = Malformed]},
                          {"ok"})

\* A directory below an application: plain or a kustomization, taken in by the
\* application's or not, edited, moved and removed; and a kustomization that
\* takes in an application beside it.
Layouts ==
    {Tree(app, db, jobs) :
        app \in {NoDir, Plainly(Plain("web", 1)), Kustomization(Plain("web", 1), <<>>),
                 Kustomization(Plain("web", 1), <<"app/db">>),
                 Kustomization(Plain("web", 2), <<"app/db">>)},
        db \in {NoDir, Plainly(Plain("db", 1)), Plainly(Plain("db", 3)),
                Kustomization(Plain("db", 1), <<>>)},
        jobs \in {NoDir, Plainly(Plain("job", 2))}}
    \cup {Tree(Plainly(Plain("web", cpu)), NoDir, Kustomization(Plain("job", 2), <<"app">>)) :
              cpu \in 1..2}

Rearranged == PullRequests({Config("both", TRUE)}, Layouts, Layouts, {Table(1)}, {"ok"})

Everything == AllOutcomes \cup Misconfigured \cup Rearranged

\* A workload under an autoscaler whose bounds come down.
Reductions ==
    PullRequests({Config("both", TRUE)},
                 Trees({Elastic("web", 1, 3, 8)}, {NoDir}),
                 Trees({Elastic("web", 1, min, max) : min \in 1..3, max \in 3..8}, {NoDir}),
                 {Table(1)}, {"ok"})

\* An application with a directory below it is removed, and another one grows.
Removals ==
    PullRequests({Config("both", TRUE)},
                 {Tree(Kustomization(Plain("web", 1), <<"app/db">>), db, Plainly(Plain("job", 2))) :
                     db \in {NoDir, Plainly(Plain("db", 3))}},
                 {Tree(NoDir, NoDir, Plainly(Plain("job", cpu))) : cpu \in 2..14},
                 {Table(1)}, {"ok"})

\* The base branch moved after the pull request branched off.
MovedBase ==
    LET trees == Trees({Plain("web", cpu) : cpu \in 1..8} \cup {NoDir}, {Plain("job", 20)})
    IN  {s \in [cfg : {Config("both", TRUE)}, mergeBase : trees, base : trees, head : trees,
                baseTable : {Table(1)}, headTable : {Table(1)}, engine : {"ok"}] : TRUE}
================================================================================
