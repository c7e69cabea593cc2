\* Two models with one picker id: what is listed, and what it is routed to.
SPECIFICATION Spec
CONSTANTS
  None = None
  Failure = Failure
  Invalid = Invalid
  Parts = {"Listing"}
  DeleteWhileBusy = FALSE
  Configurations <- Colliding
  ChatTexts = {"t1", "t2"}
  MaxStreams = 3
  MaxMessages = 4
  Profiles = {"p1"}
  MaxConnects = 2
  MaxChanges = 1
  SpeechModels = {"m1", "m2"}
  Offers <- VoiceOfEach
  DefaultVoices <- OneVoice
  AudioModels = {"m1"}
  AudioFiles = {"f1", "f2"}
  BadFile = "bad"
  ImageModels = {"m1"}
  ImageSizes = {"1024x1024", "512x512"}
  Loras = {"l1"}
  Multipliers = {1}
  MaxBatch = 2
INVARIANT PickerIDsRoute
CHECK_DEADLOCK FALSE
