CONSTANTS
  Jobs <- MCJobs
  NoJob = "none"
  DependsOn <- MCDependsOn
  Parallelism = 1
  Retries <- MCRetries
  TimeoutJobs = {"build", "deploy"}
  WhenJobs = {"lint"}
  StepJobs = {"lint"}
  OutputJobs = {"lint", "deploy"}
  NilDefinitionJobs = {"docs"}
  Exports = {"dist", "file"}
  Publishes = {"image"}
  SourceJob <- MCSourceJob
SPECIFICATION FairSpec
INVARIANTS
  TypeOK
  DepsBeforeSolve
  OutputsBeforeWhen
  SlotsConserved
  FailuresAreOwned
  DeliversOnlySuccess
  RunReportsFailures
  MessageProtocol
PROPERTIES
  DoneIsFinal
  RefinesDagRun
  Termination
  HangingSolvesEnd
