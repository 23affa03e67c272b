CONSTANTS
  Jobs <- PairJobs
  NoJob = "none"
  DependsOn <- PairDependsOn
  Parallelism = 0
  Retries <- PairRetries
  TimeoutJobs = {"build"}
  WhenJobs = {}
  StepJobs = {}
  OutputJobs = {}
  NilDefinitionJobs = {}
  Exports = {}
  Publishes = {}
  SourceJob <- PairSourceJob
SPECIFICATION Spec
INVARIANT TimeoutMsgTruthful
