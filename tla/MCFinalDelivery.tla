--------------------------- MODULE MCFinalDelivery ---------------------------
\* Instances of FinalDelivery for TLC.
EXTENDS FinalDelivery

CONSTANTS t1, t2

\* All turns belong to one worker.
OneWorker == [t \in Turns |-> "w"]

\* The first turn is cut into MaxParts by the first version and into one by a later
\* one; another turn has one part and is not planned again.
Shrinking ==
    [k \in Turns \X Revs \X (Versions \cup FreeVersions) |->
        CASE k[3] = "v1" -> {IF k[1] = t1 THEN MaxParts ELSE 1}
          [] k[3] # "v1" -> IF k[1] = t1 THEN {1} ELSE {}]

\* Any cut of any revision
AnyCut == [k \in Turns \X Revs \X (Versions \cup FreeVersions) |-> 1..MaxParts]

=============================================================================
