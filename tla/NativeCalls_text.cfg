SPECIFICATION Spec
CONSTANTS
  None = None
  Threads = {t1, t2}
  Sftps = {s}
  Codes = {"SFTP_PROTOCOL", "EAGAIN", "SOCKET_SEND"}
  MaxCalls = 2
  Used = {"open_session", "sftp_init", "write", "open_file", "rename", "set_banner"}
INVARIANT TextIsOwn
CHECK_DEADLOCK FALSE
