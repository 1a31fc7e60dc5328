SPECIFICATION Spec
CONSTANTS
  None = None
  Threads = {t1, t2}
  Sftps = {s}
  Codes = {"SFTP_PROTOCOL", "EAGAIN", "SOCKET_SEND", "SOCKET_NONE"}
  MaxCalls = 2
  Used = {"startup", "set_banner", "method_pref", "userauth_list", "hostkey_hash", "userauth_password",
    "userauth_publickey", "userauth_hostbased", "userauth_keyboard", "open_session", "scp_recv", "scp_send",
    "sftp_init", "forward_listen", "accept", "pty", "pty_resize", "shell", "execute", "setenv", "read",
    "read_ex", "write", "flush", "exit_status", "eof", "send_eof", "wait_eof", "wait_closed", "window_read",
    "window_write", "x11_req", "poll_read", "receive_window_adjust", "open_dir", "open_file", "unlink",
    "rename", "mkdir", "rmdir", "realpath", "readlink", "symlink", "get_stat", "set_stat", "file_read",
    "file_write", "dir_read", "list_files"}
INVARIANTS TypeOK ReportsRecent ReportsOwn VerdictMatches
\* Each thread makes its calls and stops.
CHECK_DEADLOCK FALSE
