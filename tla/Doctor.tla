------------------------------- MODULE Doctor -------------------------------
(***************************************************************************)
(* `doctor` (doctor.js): a report on the data directory, the command lines *)
(* of the providers and the driver of the browser, made from the files     *)
(* alone.  Each check has one of three results; the report has the worst   *)
(* of them.                                                                *)
(***************************************************************************)
EXTENDS StateTransfer

\* What a harness finds of its command line; it is never run when it was configured by hand.
Cli == {"authenticated", "signed-out", "missing", "custom", "timeout"}

\* What is found of the driver of the browser, where the workers need one or the configuration has one.
Driver == {"not-needed", "not-configured", "ready", "no-webdriver", "no-browser"}

\* checkDurableFiles and checkAudit: tasks.json is replaced as a whole, a log may be torn.
LogCheck == IF exists /\ torn THEN "error" ELSE "ok"

\* checkPolicyState: a version is written before the pointer that names it, so only the marker can be amiss.
PolicyCheck == IF exists /\ txn THEN "error" ELSE "ok"

\* checkDataDir: the directory, or where there is none the nearest one above it, has to be readable and writable.
DirectoryCheck(writable) == IF writable THEN "ok" ELSE "error"

\* requiredProviderAgents: work that a stop left behind needs its provider at once.
Required == exists /\ active

HarnessCheck(cli) ==
    CASE cli = "authenticated" -> "ok"
      [] cli \in {"signed-out", "missing"} /\ Required -> "error"
      [] OTHER -> "warning"

\* checkComputer: a browser may be found by the WebDriver where the doctor does not look.
DriverCheck(driver) ==
    CASE driver \in {"not-needed", "ready"} -> "ok"
      [] driver = "no-browser" -> "warning"
      [] OTHER -> "error"

MigrationCheck ==
    CASE ~exists \/ Inspect(reg) \in {"none", "current"} -> "ok"
      [] exists /\ Inspect(reg) = "error" -> "error"
      [] OTHER -> "warning"

\* MUTANT of StaleCheck: files of the bridges are overlooked.
OnlyTempNames == IF exists /\ OfKind({"temp", "foreign"}) # {} THEN "warning" ELSE "ok"

\* scanStale: the name of any temporary file, known to `recover` or not, and the files of a bridge.
StaleCheck == IF exists /\ scratch # {} THEN "warning" ELSE "ok"

Machine == [cli : Cli, driver : Driver, writable : BOOLEAN]

FileResults == {LogCheck, PolicyCheck, MigrationCheck, StaleCheck}
MachineResults(m) == {DirectoryCheck(m.writable), HarnessCheck(m.cli), DriverCheck(m.driver)}

Overall(results) ==
    IF "error" \in results THEN "error" ELSE IF "warning" \in results THEN "warning" ELSE "ok"

\* Whatever stopped, failed, was recovered or restored: with the runtime down, a data directory that doctor calls ok is
\* one that the preflight lets start, and a provider that a task left running lacks is an error (runDoctor against
\* preflightRuntimeStartup, which share no code).
DoctorExplains ==
    proc = "down" /\ rec.pc = "idle" /\ restore.pc = "idle" =>
        LET files == FileResults
        IN  \A m \in Machine :
                LET report == Overall(files \cup MachineResults(m))
                IN  /\ report = "ok" => Preflight
                    /\ active /\ exists /\ m.cli = "missing" => report = "error"
=============================================================================
