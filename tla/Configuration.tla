--------------------------- MODULE Configuration ---------------------------
(* internal/config/config.go: what the program is configured with, whatever *)
(* its file says.  The file is taken as its tree of nodes (yaml.go).         *)
EXTENDS Estimates

\* A node where a value is looked for: a number is a scalar that reads as a
\* decimal number, of any size.
Node == [kind : {"absent", "other", "text", "blank", "number"}, value : Int]

WorkingHour == [start : Int, end : Int]

Item == [map : BOOLEAN, start : Node, end : Node]

\* hours is empty when there is no list under server.working_hours; neither
\* its order nor what is repeated in it matters.
File == [addr : Node, hours : SUBSET Item,
         hourly : Node, daily : Node, perMinute : Node, admin : Node]

\* The two texts are told apart only as far as validate does.
Config == [addr : {"blank", "set"}, hours : SUBSET WorkingHour, hourly : Int,
           daily : Int, perMinute : Int, admin : {"blank", "set"}]

Default == [addr |-> "set",
            hours |-> {[start |-> 9, end |-> 12], [start |-> 14, end |-> 18]},
            hourly |-> 10000000, daily |-> 400000000, perMinute |-> 10,
            admin |-> "set"]

asString(n, fallback) ==
    IF n.kind \in {"text", "number"} THEN "set"
    ELSE IF n.kind = "blank" THEN "blank" ELSE fallback

\* What is no number, or does not fit, is passed over without a word.
asInt(n, fallback) ==
    IF n.kind = "number" /\ n.value \in Int64 THEN n.value ELSE fallback

\* Items that are no maps are skipped; without any other the hours stay.
ReadHours(items, fallback) ==
    LET maps == {i \in items : i.map} IN
    IF maps = {} THEN fallback
    ELSE {[start |-> asInt(i.start, 0), end |-> asInt(i.end, 0)] : i \in maps}

apply(file, cfg) ==
    [addr      |-> asString(file.addr, cfg.addr),
     hours     |-> ReadHours(file.hours, cfg.hours),
     hourly    |-> asInt(file.hourly, cfg.hourly),
     daily     |-> asInt(file.daily, cfg.daily),
     perMinute |-> asInt(file.perMinute, cfg.perMinute),
     admin     |-> asString(file.admin, cfg.admin)]

ValidHours(wh) == wh.start >= 0 /\ wh.end <= 24 /\ wh.start < wh.end

validate(cfg) ==
    /\ cfg.addr # "blank"
    /\ \A wh \in cfg.hours : ValidHours(wh)
    /\ cfg.hourly > 0 /\ cfg.daily > 0
    /\ cfg.perMinute > 0
    /\ cfg.admin # "blank"

\* What the process runs with: without a file the default, as it is; with a
\* file that is refused it does not start.
LoadConfig(files) ==
    {Default} \cup {c \in {apply(f, Default) : f \in files} : validate(c)}
=============================================================================
