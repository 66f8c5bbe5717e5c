\* Six configurations with every protocol, plug-in blocks that fail in every
\* way, and three values of -rp.
SPECIFICATION Spec
CONSTANTS
  EnvVars = {"e"}
  Configs <- MCConfigs
  Remotes = {"ALL", "SSH", "SHELL"}
  Names = {"u", "v", "w"}
  WildFiles = {"b*"}
  Outcomes = {"str", "empty", "list", "numbers", "tuple", "int", "zero", "dict", "empty_dict", "none",
              "None_text", "raised", "import_error"}
INVARIANTS
  ArgsFromDeclarer
  NoCallAfterError
  FileOfCommand
  GroupsRight
PROPERTY EndsClosed
CHECK_DEADLOCK FALSE
