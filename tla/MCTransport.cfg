\* Two commands of each length in every order and every cut; RECV_LEN and
\* CLIENT_RECV_LEN are shorter than the long packages.
SPECIFICATION FairSpec
CONSTANTS
  WIDTH = 32
  LEN7 = 1
  LEN16 = 16
  RECV_LEN = 7
  SHAKE = 2
  AnswerLens = {1, 4}
  MaxAnswers = 2
  CLIENT_RECV_LEN = 5
  WBUF_CACHE_CAPCITY = 2
  CMD_CACHE_SIZE = 4
  CommandLens = {1, 6}
  MaxCmds = 3
INVARIANTS
  TypeOK
  ReadsHaveRoom
  BlocksAccounted
PROPERTIES
  UpChannel
  DownChannel
  CommandsHandled
  MessagesShown
CHECK_DEADLOCK FALSE
