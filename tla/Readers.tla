---------------------------------- MODULE Readers ----------------------------------
(****************************************************************************)
(* app/repositories/readers: one read of the target's metrics.  exporter and  *)
(* json scrape a page and take from it what is there; prometheusapi and       *)
(* cloudwatch send a query for each mapping, one after the other, and give up *)
(* at the first that fails.  Of what is read only cpu is kept: nothing else   *)
(* is used.                                                                   *)
(****************************************************************************)
EXTENDS Integers, Sequences

CONSTANTS
    Protocols,  \* the configured protocol is one of these; "none": no polling
    Mappings,   \* Mappings[source]: the metric that a query or a name stands for
    Samples,    \* samples of a page: their kind and value
    Points,     \* samples of a query: their value and time
    Times,      \* what the clock may show
    None    \* no value

ReaderAssumption ==
    /\ Protocols \subseteq {"none", "exporter", "json", "prometheusapi", "cloudwatch"}
    /\ Times \subseteq Int /\ 0 \in Times
    /\ \A p \in Points : p.at \in Times

VARIABLES
    protocol,   \* newMetricsReader's choice
    reading     \* the read in progress: queries left, cpu, measure time
readVars == <<protocol, reading>>

Sources == DOMAIN Mappings
Scrapes == protocol \in {"exporter", "json"}

NoReading == [left |-> {}, cpu |-> None, at |-> 0]

ReadersInit ==
    /\ protocol \in Protocols
    /\ reading = NoReading

BeginRead == /\ reading' = [reading EXCEPT !.left = Sources]
             /\ UNCHANGED protocol

(* A read is forgotten when it has been processed.  The clock that stamps a  *)
(* page does not go back.                                                    *)
EndRead == /\ reading' = [NoReading EXCEPT !.at = IF Scrapes THEN reading.at ELSE 0]
           /\ UNCHANGED protocol

(* The pages: samples for some of the sources.  A gauge, a counter and an    *)
(* untyped sample have a value, anything else counts as zero.                *)
Pages == UNION {[found -> Samples] : found \in SUBSET Sources}
SampleValue(s) == IF s.kind = "other" THEN 0 ELSE s.value

(* Where two sources stand for cpu, the last one in the map's order counts.  *)
Scraped(page) == {SampleValue(page[s]) : s \in {x \in DOMAIN page : Mappings[x] = "cpu"}}

Scrape(page, now) ==
    /\ Scrapes /\ now >= reading.at
    /\ \E cpu \in IF Scraped(page) = {} THEN {None} ELSE Scraped(page) :
         reading' = [left |-> {}, cpu |-> cpu, at |-> now]
    /\ UNCHANGED protocol

(* The answers to a query: prometheusapi takes the first result, cloudwatch  *)
(* the newest datapoint of two periods.                                      *)
Answers == {<<p>> : p \in Points} \cup {<<p, q>> : p, q \in Points}

Newest(points) ==
    points[CHOOSE i \in DOMAIN points :
             \A j \in DOMAIN points : IF j < i THEN points[j].at < points[i].at
                                               ELSE points[j].at <= points[i].at]

Chosen(answer) == IF protocol = "cloudwatch" THEN Newest(answer) ELSE Head(answer)

(* The mappings are a Go map, iterated in any order; each query overwrites   *)
(* the time, so that the time of the last one counts for all.                *)
Query(source, answer) ==
    /\ ~Scrapes /\ source \in reading.left
    /\ reading' = [left |-> reading.left \ {source},
                   cpu  |-> IF Mappings[source] = "cpu" THEN Chosen(answer).value ELSE reading.cpu,
                   at   |-> Chosen(answer).at]
    /\ UNCHANGED protocol
=============================================================================
