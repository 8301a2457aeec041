--------------------------- MODULE MCSignalPipeline ---------------------------
EXTENDS SignalPipeline

\* A mail of one source, and one of another sent a window later.
CONSTANTS zip1, burry1, zip, burry

MCMails == {zip1, burry1}
MCSources == {zip, burry}
MCSourceOf == [mail \in MCMails |-> IF mail = zip1 THEN zip ELSE burry]
MCSentAt == [mail \in MCMails |-> IF mail = zip1 THEN 0 ELSE 1]
MCMaxAge == [source \in MCSources |-> IF source = zip THEN 2 ELSE 1]
===============================================================================
