SPECIFICATION Spec
CONSTANTS
  None = None
  Failure = Failure
  Invalid = Invalid
  Parts = {"Chat", "Composer", "Message", "Stream", "Markdown", "Rerank", "Speech",
           "Audio", "Images", "Concurrency", "Listing", "Store"}
  DeleteWhileBusy = FALSE
  Configurations <- AllConfigurations
  ChatTexts = {"t1", "t2"}
  MaxStreams = 3
  MaxMessages = 4
  Profiles = {"p1"}
  MaxConnects = 2
  MaxChanges = 1
  SpeechModels = {"m1", "m2"}
  Offers <- VoiceOfEach
  DefaultVoices <- OneVoice
  AudioModels = {"m1"}
  AudioFiles = {"f1", "f2"}
  BadFile = "bad"
  ImageModels = {"m1"}
  ImageSizes = {"1024x1024", "512x512"}
  Loras = {"l1"}
  Multipliers = {1}
  MaxBatch = 2
INVARIANTS
  AnswersWhatIsAbove
  CancelReaches
  SavedOrScheduled
  ReplyShown
  LoadTestTrue
  StoreSettles
  OfferedRuns
PROPERTIES
  ResultsOfTheirRequest
CHECK_DEADLOCK FALSE
