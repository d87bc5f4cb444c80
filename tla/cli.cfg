SPECIFICATION Spec
CONSTANTS
  Lines <- MCLines
  LogLevels = {"trace", "debug", "info", "warn", "off"}
  Dashed = {"--file", "--pretty", "--input", "-i", "--output", "-o", "--pages", "-p", "--revisions",
            "-r", "--stdin", "--si", "--wiki", "--bz2", "--authors", "-a", "--institutions", "-I",
            "--works", "-w"}
  NotGiven = NotGiven
INVARIANTS RunsWhatWasTyped FilesAreAsTyped NothingElseRuns HelpIsOfTheTopic
CHECK_DEADLOCK FALSE
